---- MODULE Spec2Model ----
(***************************************************************************)
(* State-machine model of the shift / stock / transaction services of the *)
(* telegram-inventory-bot repository:                                     *)
(*   apps/pos/services.py        ShiftService, TransactionService         *)
(*   apps/inventory/services.py  InventoryService                         *)
(*   apps/pos/models.py, apps/inventory/models.py   tables, constraints   *)
(* Quantities and money are whole numbers of the smallest stored unit.    *)
(* Every request handler is a process; the database holds the committed   *)
(* rows; a service call is one database transaction (transaction.atomic). *)
(***************************************************************************)
EXTENDS Integers, Sequences, FiniteSets, TLC

\* ---------------------------------------------------------------- bounds
NumProcs == 2
MaxShifts == 2
MaxStock == 2
MaxQty == 2
MaxRows == 2

Procs == 1..NumProcs

\* ---------------------------------------------------------------- catalog
\* Location, StaffProfile and Product rows, which no service call writes
Locations == 1..2
Staff == 1..2
Products == 1..2

\* Product rows (apps/inventory/models.py Product): location, is_active, price.
ProductLocation == [p \in Products |-> IF p = 1 THEN 1 ELSE 2]
ProductActive == [p \in Products |-> p = 1]
ProductPrice == [p \in Products |-> IF p = 1 THEN 5 ELSE 7]
\* Product.category (a Category row) and Product.unit (default unit)
ProductCategory == [p \in Products |-> "Drinks"]
ProductUnit == [p \in Products |-> "pcs"]

\* StaffProfile rows (apps/core/models.py StaffProfile): the location every
\* staff member is assigned to. The role is drawn in the initial state.
StaffLocation == [u \in Staff |-> 1]
\* StaffProfile.Role
Roles == {"ADMIN", "MANAGER", "CASHIER"}

\* the arguments the calls are made with
QtyInputs == (-1)..MaxQty
PriceInputs == {-1, 0, 4}

\* Payment.PaymentMethod
Methods == {"CASH", "CARD", "TRANSFER"}

\* A StorageStock or DisplayStock row that does not exist (Product.stock_quantity
\* reads it as None).
NoRow == -1

\* Transaction.exported_at of a row that was not exported (null)
NotExported == 0

VARIABLES
    db,      \* committed database rows
    now,     \* timezone.now(), a logical clock
    pc,      \* pc[i]: position of request handler i
    call,    \* call[i]: arguments and locals of the call in flight
    obj,     \* obj[i]: the Shift object handler i has loaded
    locks,   \* locks[t][p]: holder of the row lock (select_for_update), 0 = free
    last,    \* outcome of the call that returned most recently
    profiles, \* profiles[u]: the StaffProfile row of Telegram user u
    fsm      \* fsm[u]: the FSMContext (state and data) of the chat with user u

vars == <<db, now, pc, call, obj, locks, last, profiles, fsm>>
\* what a service call made outside the bot leaves alone
botvars == <<profiles, fsm>>

NoCall ==
    [op |-> "none", staff |-> 0, location |-> 0, product |-> 0, qty |-> 0, seen |-> 0,
     rows |-> <<>>]
\* the FSMContext of a chat with no conversation going on (state None, empty
\* data); handler, calls, text and payment_method belong to the handler that
\* is running for the user: the request handler it occupies (0 = none), the
\* service it calls, the message text and the payment method parsed from it
NoFsm ==
    [state |-> "none", shift_id |-> 0, product_id |-> 0, quantity |-> 0,
     purchase_price |-> 0, handler |-> 0, calls |-> "none", text |-> "",
     payment_method |-> "none"]
NoObj == [id |-> 0, is_closed |-> FALSE, location |-> 0]
\* the dictionary get_shift_summary returns, before any report was made
NoSummary ==
    [sales_count |-> 0, sales_total |-> 0, refunds_count |-> 0, refunds_total |-> 0,
     net_total |-> 0, total_cash |-> 0, total_card |-> 0, total_transfer |-> 0]

NoLast == [op |-> "none", status |-> "none", info |-> 0, ret |-> 0, summary |-> NoSummary]

\* info is the quantity the outcome is about: the available quantity of an
\* InsufficientStock, the staff of a ShiftAlreadyOpen, the signed qty of an
\* adjustment that passed its guards
Outcome(i, op, status, info, ret) ==
    [op |-> op, status |-> status, info |-> info, ret |-> ret, summary |-> NoSummary]

\* ---------------------------------------------------------------- helpers
\* variant: the query filters on the location only
OpenShiftIds_AnyState(d, loc) == {s \in 1..Len(d.shifts) : d.shifts[s].location = loc}

\* Shift.objects.filter(location=location, is_closed=False)
OpenShiftIds(d, loc) ==
    {s \in 1..Len(d.shifts) : d.shifts[s].location = loc /\ ~d.shifts[s].is_closed}

\* variant: the table has no unique constraint
UniqueOpenShiftAllows_NoConstraint(d, loc) == TRUE

\* Shift.Meta.constraints: unique_open_shift_per_location, checked by the
\* database when a row is inserted.
UniqueOpenShiftAllows(d, loc) == OpenShiftIds(d, loc) = {}

\* variant: a new shift starts with a total of 1
NewShift_NonZeroTotal(staff, loc) ==
    [location |-> loc, staff |-> staff, is_closed |-> FALSE, closed_at |-> 0,
     total_sales |-> 1, total_cash |-> 0, total_card |-> 0, total_transfer |-> 0]

\* Shift.objects.create(staff=..., location=...): field defaults
NewShift(staff, loc) ==
    [location |-> loc, staff |-> staff, is_closed |-> FALSE, closed_at |-> 0,
     total_sales |-> 0, total_cash |-> 0, total_card |-> 0, total_transfer |-> 0]

\* Product.stock_quantity: storage + display, a missing row counting as 0
DisplayQty(d, p) == IF d.display[p] = NoRow THEN 0 ELSE d.display[p]
StorageQty(d, p) == IF d.storage[p] = NoRow THEN 0 ELSE d.storage[p]
StockQuantity(storageQty, displayQty) == storageQty + displayQty

\* all units in stock, the quantity the model bounds
TotalStock(d) ==
    LET both == [p \in Products |-> StockQuantity(StorageQty(d, p), DisplayQty(d, p))]
    IN both[1] + both[2]

\* product.update_stock(delta): class Product defines no update_stock, so the
\* attribute lookup raises AttributeError.
UpdateStock(p, delta) == "AttributeError"

\* variant: the call runs outside a transaction, its writes stay
Atomic_NoRollback(outcome, before, after) == after

\* @transaction.atomic: the writes of a call are committed when it returns and
\* rolled back when it raises.
Atomic(outcome, before, after) == IF outcome = "ok" THEN after ELSE before

\* the row a call returns; a call that raises returns nothing
Returned(outcome, id) == IF outcome = "ok" THEN id ELSE 0

\* variant: the query does not filter on the type
SaleIds_AllTypes(d, sid) ==
    {t \in 1..Len(d.transactions) : d.transactions[t].shift = sid}

\* shift.transactions.filter(transaction_type=SALE) of close_shift
SaleIds(d, sid) ==
    {t \in 1..Len(d.transactions) :
        d.transactions[t].shift = sid /\ d.transactions[t].type = "SALE"}

RECURSIVE SumAmount(_, _)
SumAmount(d, ids) ==
    IF ids = {} THEN 0
    ELSE LET t == CHOOSE x \in ids : TRUE
         IN d.transactions[t].amount + SumAmount(d, ids \ {t})

\* the Payment rows of Transaction t
PaymentsOf(d, t) == {k \in 1..Len(d.payments) : d.payments[k].transaction = t}

PaymentIds(d, tids, m) ==
    {k \in 1..Len(d.payments) :
        d.payments[k].transaction \in tids /\ d.payments[k].method = m}

RECURSIVE SumPayments(_, _)
SumPayments(d, ids) ==
    IF ids = {} THEN 0
    ELSE LET k == CHOOSE x \in ids : TRUE
         IN d.payments[k].amount + SumPayments(d, ids \ {k})

Idle(i) == pc[i] = "idle"

Return(i, op, status, info, ret) ==
    /\ pc' = [pc EXCEPT ![i] = "idle"]
    /\ call' = [call EXCEPT ![i] = NoCall]
    /\ obj' = [obj EXCEPT ![i] = NoObj]
    /\ last' = Outcome(i, op, status, info, ret)

\* ---------------------------------------------------------------- Init
\* the database after the migrations and the creation of the products:
\* Product.save creates the StorageStock row with quantity 0
EmptyDb ==
    [shifts |-> <<>>,
     storage |-> [p \in Products |-> 0],
     display |-> [p \in Products |-> NoRow],
     last_purchase_price |-> [p \in Products |-> NoRow],
     transactions |-> <<>>,
     payments |-> <<>>,
     purchases |-> <<>>,
     transfers |-> <<>>,
     sheet |-> <<>>,
     storage_location |-> [p \in Products |-> ProductLocation[p]],
     display_location |-> [p \in Products |-> 0],
     storage_rows |-> [p \in Products |-> 1],
     display_rows |-> [p \in Products |-> 0]]

\* the shift table after one shift of location 1 was opened and closed and a
\* shift was then opened at each location
ClosedShift(staff, loc, at) == [NewShift(staff, loc) EXCEPT !.is_closed = TRUE, !.closed_at = at]
ThreeShifts == <<ClosedShift(1, 1, 1), NewShift(2, 1), NewShift(1, 2)>>

HandlersIdle ==
    /\ pc = [i \in Procs |-> "idle"]
    /\ call = [i \in Procs |-> NoCall]
    /\ obj = [i \in Procs |-> NoObj]
    /\ locks = [t \in {"product", "storage", "display"} |-> [p \in Products |-> 0]]
    /\ last = NoLast
    /\ profiles = [u \in Staff |-> [role |-> "MANAGER", location |-> StaffLocation[u]]]
    /\ fsm = [u \in Staff |-> NoFsm]

Init ==
    /\ db = EmptyDb
    /\ now = 1
    /\ HandlersIdle

\* product 2 is a legacy product: it was created before migration 0002 and
\* has no StorageStock row
InitStock ==
    /\ db = [EmptyDb EXCEPT !.shifts = ThreeShifts, !.storage[2] = NoRow,
                            !.storage_location[2] = 0, !.storage_rows[2] = 0]
    /\ now = 2
    /\ HandlersIdle

\* ---------------------------------------------------------------- ShiftService
\* start_shift, lines 35-44: the existence check
StartShiftCheck(i, staff, loc) ==
    /\ Idle(i)
    /\ LET open == OpenShiftIds(db, loc)
       IN IF open # {}
          THEN LET s == CHOOSE x \in open : TRUE
               IN /\ Return(i, "start_shift", "ShiftAlreadyOpen", db.shifts[s].staff, 0)
                  /\ UNCHANGED <<db, now, locks>>
          ELSE /\ Len(db.shifts) + Cardinality({j \in Procs : pc[j] = "start_insert"})
                     < MaxShifts
               /\ pc' = [pc EXCEPT ![i] = "start_insert"]
               /\ call' = [call EXCEPT ![i] =
                     [NoCall EXCEPT !.op = "start_shift", !.staff = staff, !.location = loc]]
               /\ UNCHANGED <<db, now, obj, locks, last>>

\* start_shift, lines 46-53: Shift.objects.create under the unique constraint
StartShiftInsert(i) ==
    /\ pc[i] = "start_insert"
    /\ LET c == call[i]
       IN IF UniqueOpenShiftAllows(db, c.location)
          THEN /\ db' = [db EXCEPT !.shifts = Append(@, NewShift(c.staff, c.location))]
               /\ Return(i, "start_shift", "ok", 0, Len(db.shifts) + 1)
          ELSE /\ db' = db
               /\ Return(i, "start_shift", "IntegrityError", 0, 0)
    /\ UNCHANGED <<now, locks>>

\* Shift.objects.get(id=shift_id): the caller loads the Shift object it passes
\* to close_shift / create_sale / create_refund / create_adjustment
LoadShift(i, s) ==
    /\ Idle(i)
    /\ s \in 1..Len(db.shifts)
    /\ obj' = [obj EXCEPT ![i] =
          [id |-> s, is_closed |-> db.shifts[s].is_closed, location |-> db.shifts[s].location]]
    /\ pc' = [pc EXCEPT ![i] = "loaded"]
    /\ UNCHANGED <<db, now, call, locks, last>>

\* variant: close_shift without the is_closed guard
CloseAllowed_Unchecked(o) == TRUE

\* close_shift, lines 71-72: the guard, on the Shift object handed to the call
CloseAllowed(o) == ~o.is_closed

\* variant: the close flips is_closed
ClosedRow_Toggled(d, sid, at) ==
    LET sales == SaleIds(d, sid)
    IN [d.shifts[sid] EXCEPT
          !.is_closed = ~d.shifts[sid].is_closed,
          !.closed_at = at,
          !.total_sales = SumAmount(d, sales),
          !.total_cash = SumPayments(d, PaymentIds(d, sales, "CASH")),
          !.total_card = SumPayments(d, PaymentIds(d, sales, "CARD")),
          !.total_transfer = SumPayments(d, PaymentIds(d, sales, "TRANSFER"))]

\* close_shift, lines 74-106: the totals of the SALE transactions and the
\* fields shift.save() writes
ClosedRow(d, sid, at) ==
    LET sales == SaleIds(d, sid)
    IN [d.shifts[sid] EXCEPT
          !.is_closed = TRUE,
          !.closed_at = at,
          !.total_sales = SumAmount(d, sales),
          !.total_cash = SumPayments(d, PaymentIds(d, sales, "CASH")),
          !.total_card = SumPayments(d, PaymentIds(d, sales, "CARD")),
          !.total_transfer = SumPayments(d, PaymentIds(d, sales, "TRANSFER"))]

\* close_shift, lines 71-121 (no stock_counts)
CloseShift(i) ==
    /\ pc[i] = "loaded"
    /\ LET o == obj[i]
       IN IF ~CloseAllowed(o)
          THEN /\ Return(i, "close_shift", "ShiftAlreadyClosed", 0, 0)
               /\ UNCHANGED <<db, now>>
          ELSE /\ db' = [db EXCEPT !.shifts[o.id] = ClosedRow(db, o.id, now)]
               /\ now' = now + 1
               /\ Return(i, "close_shift", "ok", 0, o.id)
    /\ UNCHANGED locks

\* ---------------------------------------------------------------- TransactionService
\* Transaction rows. delta is no column: it records the signed quantity the
\* call hands to product.update_stock.
SaleRow(sid, p, qty) ==
    [shift |-> sid, product |-> p, type |-> "SALE", qty |-> qty,
     amount |-> ProductPrice[p] * qty, delta |-> -qty, exported_at |-> NotExported]
RefundRow(sid, p, qty) ==
    [shift |-> sid, product |-> p, type |-> "REFUND", qty |-> qty,
     amount |-> ProductPrice[p] * qty, delta |-> qty, exported_at |-> NotExported]
AdjustmentRow(sid, p, qty) ==
    [shift |-> sid, product |-> p, type |-> "ADJUSTMENT",
     qty |-> IF qty < 0 THEN -qty ELSE qty, amount |-> 0, delta |-> qty,
     exported_at |-> NotExported]
PaymentRow(tid, m, amount) == [transaction |-> tid, method |-> m, amount |-> amount]

\* what a call has written when it reaches product.update_stock
WithTransaction(d, row) == [d EXCEPT !.transactions = Append(@, row)]
\* variant: the Payment carries twice the amount of its Transaction
WithPayment_DoubleAmount(d, m) ==
    [d EXCEPT !.payments =
        Append(@, PaymentRow(Len(d.transactions), m,
                             2 * d.transactions[Len(d.transactions)].amount))]
WithPayment(d, m) ==
    [d EXCEPT !.payments =
        Append(@, PaymentRow(Len(d.transactions), m,
                             d.transactions[Len(d.transactions)].amount))]

\* create_sale, lines 153-175: the guards, then the lock on the Product row
\* and the first read of product.stock_quantity (the StorageStock row).
\* payment_method is read at line 197 only and is drawn there.
\* variant: the is_active guard is missing
SaleValidation_NoActiveGuard(o, p, qty) ==
    IF o.is_closed THEN "ShiftClosed"
    ELSE IF o.location # ProductLocation[p] THEN "LocationMismatch"
    ELSE IF qty <= 0 THEN "InvalidQuantity"
    ELSE "ok"

SaleValidation(o, p, qty) ==
    IF o.is_closed THEN "ShiftClosed"
    ELSE IF o.location # ProductLocation[p] THEN "LocationMismatch"
    ELSE IF ~ProductActive[p] THEN "ProductInactive"
    ELSE IF qty <= 0 THEN "InvalidQuantity"
    ELSE "ok"

SaleBegin(i, p, qty) ==
    /\ pc[i] = "loaded"
    /\ LET v == SaleValidation(obj[i], p, qty)
       IN IF v # "ok"
          THEN /\ Return(i, "create_sale", v, 0, 0)
               /\ UNCHANGED <<db, now, locks>>
          ELSE /\ locks["product"][p] = 0
               /\ locks' = [locks EXCEPT !["product"][p] = i]
               /\ pc' = [pc EXCEPT ![i] = "sale_locked"]
               /\ call' = [call EXCEPT ![i] =
                     [NoCall EXCEPT !.op = "create_sale", !.product = p, !.qty = qty,
                                    !.seen = StorageQty(db, p)]]
               /\ UNCHANGED <<db, now, obj, last>>

\* create_sale, lines 175-204: the read of the DisplayStock row, the stock
\* check, the inserts and product.update_stock
SaleFinish(i, m) ==
    /\ pc[i] = "sale_locked"
    /\ LET c == call[i]
           avail == StockQuantity(c.seen, DisplayQty(db, c.product))
           written == WithPayment(WithTransaction(db, SaleRow(obj[i].id, c.product, c.qty)),
                                  m)
           raised == UpdateStock(c.product, -c.qty)
       IN IF avail < c.qty
          THEN /\ db' = db
               /\ Return(i, "create_sale", "InsufficientStock", avail, 0)
          ELSE /\ db' = Atomic(raised, db, written)
               /\ Return(i, "create_sale", raised, 0, Returned(raised, Len(written.transactions)))
    /\ locks' = [locks EXCEPT !["product"][call[i].product] = 0]
    /\ UNCHANGED now

\* create_refund, lines 231-265
RefundValidation(o, qty) ==
    IF o.is_closed THEN "ShiftClosed"
    ELSE IF qty <= 0 THEN "InvalidQuantity"
    ELSE "ok"

CreateRefund(i, p, qty, m) ==
    /\ pc[i] = "loaded"
    /\ LET v == RefundValidation(obj[i], qty)
           written == WithPayment(WithTransaction(db, RefundRow(obj[i].id, p, qty)), m)
           raised == UpdateStock(p, qty)
       IN IF v # "ok"
          THEN /\ db' = db
               /\ Return(i, "create_refund", v, 0, 0)
          ELSE /\ locks["product"][p] = 0
               /\ db' = Atomic(raised, db, written)
               /\ Return(i, "create_refund", raised, 0, Returned(raised, Len(written.transactions)))
    /\ UNCHANGED <<now, locks>>

\* create_adjustment, lines 290-312
AdjustmentValidation(o, qty) ==
    IF o.is_closed THEN "ShiftClosed"
    ELSE IF qty = 0 THEN "ZeroQuantity"
    ELSE "ok"

CreateAdjustment(i, p, qty) ==
    /\ pc[i] = "loaded"
    /\ LET v == AdjustmentValidation(obj[i], qty)
           written == WithTransaction(db, AdjustmentRow(obj[i].id, p, qty))
           raised == UpdateStock(p, qty)
       IN IF v # "ok"
          THEN /\ db' = db
               /\ Return(i, "create_adjustment", v, 0, 0)
          ELSE /\ locks["product"][p] = 0
               /\ db' = Atomic(raised, db, written)
               /\ Return(i, "create_adjustment", raised, qty, Returned(raised, Len(written.transactions)))
    /\ UNCHANGED <<now, locks>>

\* ---------------------------------------------------------------- ReportService
\* transactions.filter(transaction_type=REFUND) of get_shift_summary
RefundIds(d, sid) ==
    {t \in 1..Len(d.transactions) :
        d.transactions[t].shift = sid /\ d.transactions[t].type = "REFUND"}

\* variant: the refunds are not subtracted from the payment totals
ShiftSummary_RefundsNotSubtracted(d, sid) ==
    LET sales == SaleIds(d, sid)
        refunds == RefundIds(d, sid)
        sales_total == SumAmount(d, sales)
        refunds_total == SumAmount(d, refunds)
        paid(ids, m) == SumPayments(d, PaymentIds(d, ids, m))
    IN [sales_count |-> Cardinality(sales),
        sales_total |-> sales_total,
        refunds_count |-> Cardinality(refunds),
        refunds_total |-> refunds_total,
        net_total |-> sales_total - refunds_total,
        total_cash |-> paid(sales, "CASH"),
        total_card |-> paid(sales, "CARD"),
        total_transfer |-> paid(sales, "TRANSFER")]

\* get_shift_summary, lines 329-365 and 391-403: the totals of a shift
ShiftSummary(d, sid) ==
    LET sales == SaleIds(d, sid)
        refunds == RefundIds(d, sid)
        sales_total == SumAmount(d, sales)
        refunds_total == SumAmount(d, refunds)
        paid(ids, m) == SumPayments(d, PaymentIds(d, ids, m))
    IN [sales_count |-> Cardinality(sales),
        sales_total |-> sales_total,
        refunds_count |-> Cardinality(refunds),
        refunds_total |-> refunds_total,
        net_total |-> sales_total - refunds_total,
        total_cash |-> paid(sales, "CASH") - paid(refunds, "CASH"),
        total_card |-> paid(sales, "CARD") - paid(refunds, "CARD"),
        total_transfer |-> paid(sales, "TRANSFER") - paid(refunds, "TRANSFER")]

\* variant: the summary call stores the sales total on the Shift row
GetShiftSummary_StoresTotal(i) ==
    /\ pc[i] = "loaded"
    /\ pc' = [pc EXCEPT ![i] = "idle"]
    /\ call' = [call EXCEPT ![i] = NoCall]
    /\ obj' = [obj EXCEPT ![i] = NoObj]
    /\ last' = [Outcome(i, "get_shift_summary", "ok", 0, obj[i].id)
                   EXCEPT !.summary = ShiftSummary(db, obj[i].id)]
    /\ db' = [db EXCEPT !.shifts[obj[i].id].total_sales = ShiftSummary(db, obj[i].id).sales_total]
    /\ UNCHANGED <<now, locks>>

\* a handler that loaded a Shift object asks for its summary
GetShiftSummary(i) ==
    /\ pc[i] = "loaded"
    /\ pc' = [pc EXCEPT ![i] = "idle"]
    /\ call' = [call EXCEPT ![i] = NoCall]
    /\ obj' = [obj EXCEPT ![i] = NoObj]
    /\ last' = [Outcome(i, "get_shift_summary", "ok", 0, obj[i].id)
                   EXCEPT !.summary = ShiftSummary(db, obj[i].id)]
    /\ UNCHANGED <<db, now, locks>>

\* variant: the register total leaves the transfers out
FinancialReport_TransfersLeftOut(d, sid) ==
    LET summary == ShiftSummary(d, sid)
    IN [total_in_register |-> summary.total_cash + summary.total_card,
        net_cash |-> summary.total_cash,
        net_card |-> summary.total_card,
        net_transfer |-> summary.total_transfer,
        sales_total |-> summary.sales_total,
        refunds_total |-> summary.refunds_total,
        net_total |-> summary.net_total]

\* get_financial_report, lines 504-520
FinancialReport(d, sid) ==
    LET summary == ShiftSummary(d, sid)
    IN [total_in_register |-> summary.total_cash + summary.total_card + summary.total_transfer,
        net_cash |-> summary.total_cash,
        net_card |-> summary.total_card,
        net_transfer |-> summary.total_transfer,
        sales_total |-> summary.sales_total,
        refunds_total |-> summary.refunds_total,
        net_total |-> summary.net_total]

\* a handler that loaded a Shift object asks for its financial report
GetFinancialReport(i) ==
    /\ pc[i] = "loaded"
    /\ pc' = [pc EXCEPT ![i] = "idle"]
    /\ call' = [call EXCEPT ![i] = NoCall]
    /\ obj' = [obj EXCEPT ![i] = NoObj]
    /\ last' = [Outcome(i, "get_financial_report", "ok", 0, obj[i].id)
                   EXCEPT !.summary = FinancialReport(db, obj[i].id)]
    /\ UNCHANGED <<db, now, locks>>

\* get_inventory_report, lines 476-491: one line per active product of the
\* location, with the sum of its two stock rows (the product ids stand for
\* the order by category and name)
InventoryReport(d, loc) ==
    LET ids == SelectSeq([p \in 1..Cardinality(Products) |-> p],
                         LAMBDA p : ProductLocation[p] = loc /\ ProductActive[p])
    IN [n \in 1..Len(ids) |->
           [category |-> ProductCategory[ids[n]],
            product |-> ids[n],
            stock |-> StockQuantity(StorageQty(d, ids[n]), DisplayQty(d, ids[n])),
            unit |-> ProductUnit[ids[n]],
            price |-> ProductPrice[ids[n]]]]

GetInventoryReport(i, loc) ==
    /\ Idle(i)
    /\ last' = [Outcome(i, "get_inventory_report", "ok", 0, 0)
                   EXCEPT !.summary = [lines |-> InventoryReport(db, loc)]]
    /\ UNCHANGED <<db, now, pc, call, obj, locks>>

\* ---------------------------------------------------------------- InventoryService
PurchaseRow(p, qty, price) ==
    [product |-> p, location |-> ProductLocation[p], quantity |-> qty,
     purchase_price |-> price, total_cost |-> qty * price]
TransferRow(p, qty) ==
    [product |-> p, location |-> ProductLocation[p], quantity |-> qty]

\* variant: the stock tables have no unique constraint on product
OneToOneAllows_NoConstraint(rows) == TRUE

\* StorageStock.product and DisplayStock.product are OneToOneFields: an insert
\* is refused when the product already has a row
OneToOneAllows(rows) == rows = 0

\* get_or_create(product=product, location=location): the row of the product
\* at that location is read; when there is none an insert is tried, and the
\* IntegrityError of the refused insert leaves the call
StockRowLookup(rows, rowLocation, loc) ==
    IF rows > 0 /\ rowLocation = loc THEN "got"
    ELSE IF OneToOneAllows(rows) THEN "created"
    ELSE "IntegrityError"

\* the StorageStock row get_or_create inserts (quantity 0) when it found none
WithStorageRow(d, p, loc) ==
    IF StockRowLookup(d.storage_rows[p], d.storage_location[p], loc) = "created"
    THEN [d EXCEPT !.storage[p] = StorageQty(d, p),
                   !.storage_location[p] = loc,
                   !.storage_rows[p] = @ + 1]
    ELSE d

\* the DisplayStock row get_or_create inserts (quantity 0) when it found none
WithDisplayRow(d, p, loc) ==
    IF StockRowLookup(d.display_rows[p], d.display_location[p], loc) = "created"
    THEN [d EXCEPT !.display[p] = DisplayQty(d, p),
                   !.display_location[p] = loc,
                   !.display_rows[p] = @ + 1]
    ELSE d

\* variant: the purchase price is not stored on the StorageStock row
AfterPurchase_PriceNotStored(d, p, qty, price) ==
    [d EXCEPT !.purchases = Append(@, PurchaseRow(p, qty, price)),
              !.storage[p] = StorageQty(d, p) + qty]

\* the writes of purchase, lines 52-74 (a missing StorageStock row is created
\* with quantity 0 by get_or_create)
AfterPurchase(d, p, qty, price) ==
    [d EXCEPT !.purchases = Append(@, PurchaseRow(p, qty, price)),
              !.storage[p] = StorageQty(d, p) + qty,
              !.last_purchase_price[p] = price]

\* variant: the display row is not credited
AfterTransfer_DisplayNotCredited(d, p, qty) ==
    [d EXCEPT !.transfers = Append(@, TransferRow(p, qty)),
              !.storage[p] = StorageQty(d, p) - qty,
              !.display[p] = DisplayQty(d, p)]

\* variant: the storage row is not debited
AfterTransfer_StorageNotDebited(d, p, qty) ==
    [d EXCEPT !.transfers = Append(@, TransferRow(p, qty)),
              !.display[p] = DisplayQty(d, p) + qty]

\* the writes of transfer, lines 119-137
AfterTransfer(d, p, qty) ==
    [d EXCEPT !.transfers = Append(@, TransferRow(p, qty)),
              !.storage[p] = StorageQty(d, p) - qty,
              !.display[p] = DisplayQty(d, p) + qty]

\* the writes of purchase(product, location, ...), lines 52-74: the row
\* get_or_create inserted and the PurchaseTransaction carry the location of
\* the call
AfterPurchaseAt(d, p, loc, qty, price) ==
    LET w == AfterPurchase(WithStorageRow(d, p, loc), p, qty, price)
    IN [w EXCEPT !.purchases[Len(w.purchases)].location = loc]

\* the writes of transfer(product, location, ...), lines 119-137
AfterTransferAt(d, p, loc, qty) ==
    LET w == AfterTransfer(WithDisplayRow(d, p, loc), p, qty)
    IN [w EXCEPT !.transfers[Len(w.transfers)].location = loc]

\* variant: a price of 0 is refused
PurchaseValidation_ZeroPriceRefused(qty, price) ==
    IF qty <= 0 THEN "InvalidQuantity"
    ELSE IF price <= 0 THEN "InvalidPrice"
    ELSE "ok"

\* purchase, lines 46-50: the validation
PurchaseValidation(qty, price) ==
    IF qty <= 0 THEN "InvalidQuantity"
    ELSE IF price < 0 THEN "InvalidPrice"
    ELSE "ok"

\* purchase(product, location, quantity, purchase_price), lines 46-76
PurchaseAt(i, p, loc, qty, price) ==
    /\ Idle(i)
    /\ LET v == PurchaseValidation(qty, price)
       IN IF v # "ok"
          THEN /\ db' = db
               /\ Return(i, "purchase", v, 0, 0)
          ELSE IF StockRowLookup(db.storage_rows[p], db.storage_location[p], loc)
                     = "IntegrityError"
          THEN /\ db' = db
               /\ Return(i, "purchase", "IntegrityError", 0, 0)
          ELSE /\ locks["storage"][p] = 0
               /\ TotalStock(db) + qty <= MaxStock
               /\ db' = AfterPurchaseAt(db, p, loc, qty, price)
               /\ Return(i, "purchase", "ok", 0, Len(db.purchases) + 1)
    /\ UNCHANGED <<now, locks>>

\* purchase called with the product's own location
Purchase(i, p, qty, price) == PurchaseAt(i, p, ProductLocation[p], qty, price)

\* variant: transfer locking the DisplayStock row before the StorageStock row
TransferLockOrder_DisplayFirst == <<"display", "storage">>

\* transfer, lines 107-124: the order of its two select_for_update calls
TransferLockOrder == <<"storage", "display">>

\* transfer(product, location, quantity), lines 103-111: the quantity guard,
\* then get_or_create and the lock on the StorageStock row
TransferLockAt(i, p, loc, qty) ==
    /\ Idle(i)
    /\ IF qty <= 0
       THEN /\ Return(i, "transfer", "InvalidQuantity", 0, 0)
            /\ UNCHANGED <<db, now, locks>>
       ELSE IF StockRowLookup(db.storage_rows[p], db.storage_location[p], loc)
                  = "IntegrityError"
       THEN /\ Return(i, "transfer", "IntegrityError", 0, 0)
            /\ UNCHANGED <<db, now, locks>>
       ELSE /\ locks[TransferLockOrder[1]][p] = 0
            /\ locks' = [locks EXCEPT ![TransferLockOrder[1]][p] = i]
            /\ pc' = [pc EXCEPT ![i] = "transfer_locked"]
            /\ call' = [call EXCEPT ![i] =
                  [NoCall EXCEPT !.op = "transfer", !.product = p, !.qty = qty,
                                 !.location = loc]]
            /\ UNCHANGED <<db, now, obj, last>>

\* transfer called with the product's own location
TransferLock(i, p, qty) == TransferLockAt(i, p, ProductLocation[p], qty)

\* variant: transfer without the storage check
TransferAllowed_Unchecked(storageQty, qty) == TRUE

\* variant: the storage check lets one unit too many through
TransferAllowed_OffByOne(storageQty, qty) == ~(storageQty + 1 < qty)

\* the storage check of transfer, line 114
TransferAllowed(storageQty, qty) == ~(storageQty < qty)

\* transfer, lines 113-124: the storage check (a StorageStock row that
\* get_or_create inserted holds 0), then get_or_create and the lock on the
\* DisplayStock row
TransferCheck(i) ==
    /\ pc[i] = "transfer_locked"
    /\ LET c == call[i]
           p == c.product
       IN IF ~TransferAllowed(StorageQty(db, p), c.qty)
          THEN /\ Return(i, "transfer", "InsufficientStock", StorageQty(db, p), 0)
               /\ locks' = [locks EXCEPT ![TransferLockOrder[1]][p] = 0]
          ELSE IF StockRowLookup(db.display_rows[p], db.display_location[p], c.location)
                     = "IntegrityError"
          THEN /\ Return(i, "transfer", "IntegrityError", 0, 0)
               /\ locks' = [locks EXCEPT ![TransferLockOrder[1]][p] = 0]
          ELSE /\ locks[TransferLockOrder[2]][p] = 0
               /\ locks' = [locks EXCEPT ![TransferLockOrder[2]][p] = i]
               /\ pc' = [pc EXCEPT ![i] = "transfer_checked"]
               /\ UNCHANGED <<call, obj, last>>
    /\ UNCHANGED <<db, now>>

\* transfer, lines 126-139: the TransferTransaction, the two updates and the
\* commit, which releases both row locks
TransferFinish(i) ==
    /\ pc[i] = "transfer_checked"
    /\ LET c == call[i]
           p == c.product
       IN /\ db' = AfterTransferAt(db, p, c.location, c.qty)
          /\ Return(i, "transfer", "ok", 0, Len(db.transfers) + 1)
          /\ locks' = [locks EXCEPT !["storage"][p] = 0, !["display"][p] = 0]
    /\ UNCHANGED now

\* ---------------------------------------------------------------- recorded ledger
\* A database migrated from the schema before inventory migration 0002
\* (Product.stock_quantity): its Transaction and Payment rows were recorded
\* while sales, refunds and adjustments still committed. The rows are those
\* create_sale / create_refund / create_adjustment insert, on the open shifts
\* 2 and 3 of ThreeShifts, for the product of the shift's location: every
\* quantity and method on shift 2, one cash row of each type on shift 3, and
\* an adjustment (which has no Payment) on either.
LedgerEntries ==
    [type : {"SALE", "REFUND"}, shift : {2}, qty : 1..MaxQty, method : Methods]
    \cup [type : {"SALE", "REFUND"}, shift : {3}, qty : {1}, method : {"CASH"}]
    \cup [type : {"ADJUSTMENT"}, shift : {2, 3}, qty : {-1}, method : {"CASH"}]

Record(d, e) ==
    LET p == CHOOSE x \in Products : ProductLocation[x] = ThreeShifts[e.shift].location
    IN IF e.type = "SALE"
       THEN WithPayment(WithTransaction(d, SaleRow(e.shift, p, e.qty)), e.method)
       ELSE IF e.type = "REFUND"
       THEN WithPayment(WithTransaction(d, RefundRow(e.shift, p, e.qty)), e.method)
       ELSE WithTransaction(d, AdjustmentRow(e.shift, p, e.qty))

RECURSIVE Recorded(_, _)
Recorded(d, entries) ==
    IF entries = <<>> THEN d
    ELSE Recorded(Record(d, Head(entries)), Tail(entries))

InitLedger ==
    /\ \E n \in 0..MaxRows : \E entries \in [1..n -> LedgerEntries] :
          db = Recorded([EmptyDb EXCEPT !.shifts = ThreeShifts], entries)
    /\ now = 2
    /\ HandlersIdle

\* ---------------------------------------------------------------- GoogleSheetsService
\* export_transactions, lines 104-112: the ids of the Transactions with
\* exported_at null, ordered by created_at
Unexported(d) ==
    SelectSeq([t \in 1..Len(d.transactions) |-> t],
              LAMBDA t : d.transactions[t].exported_at = NotExported)

\* the slice [:batch_size]
Batch(ids, size) == SubSeq(ids, 1, IF size < Len(ids) THEN size ELSE Len(ids))

\* lines 127-129: the method of the first Payment, or the empty string
PaymentMethodOf(d, t) ==
    IF PaymentsOf(d, t) = {} THEN ""
    ELSE d.payments[CHOOSE k \in PaymentsOf(d, t) : \A j \in PaymentsOf(d, t) : k <= j].method

\* lines 131-144: the sheet row of Transaction t
SheetRow(d, t) ==
    [id |-> t, shift |-> d.transactions[t].shift, product |-> d.transactions[t].product,
     type |-> d.transactions[t].type, qty |-> d.transactions[t].qty,
     amount |-> d.transactions[t].amount, method |-> PaymentMethodOf(d, t)]

\* the ids of the rows a run has prepared (transaction_ids, line 146)
TransactionIds(rows) == {rows[n].id : n \in 1..Len(rows)}

\* export_transactions, lines 99-146: the enabled guard, the query and the
\* rows built from its result
ExportRead(i, enabled, batch_size) ==
    /\ Idle(i)
    /\ LET ids == Batch(Unexported(db), batch_size)
       IN IF ~enabled
          THEN /\ Return(i, "export_transactions", "disabled", 0, 0)
               /\ UNCHANGED <<db, now, locks>>
          ELSE IF ids = <<>>
          THEN /\ Return(i, "export_transactions", "ok", 0, 0)
               /\ UNCHANGED <<db, now, locks>>
          ELSE /\ pc' = [pc EXCEPT ![i] = "export_read"]
               /\ call' = [call EXCEPT ![i] =
                     [NoCall EXCEPT !.op = "export_transactions",
                                    !.rows = [n \in 1..Len(ids) |-> SheetRow(db, ids[n])]]]
               /\ UNCHANGED <<db, now, obj, locks, last>>

\* lines 119 and 149: worksheet.append_rows, which appends the rows to the
\* sheet or raises; the exception leaves the method before the update
ExportAppend(i, appended) ==
    /\ pc[i] = "export_read"
    /\ IF appended
       THEN /\ db' = [db EXCEPT !.sheet = @ \o call[i].rows]
            /\ pc' = [pc EXCEPT ![i] = "export_appended"]
            /\ UNCHANGED <<call, obj, last>>
       ELSE /\ db' = db
            /\ Return(i, "export_transactions", "APIError", 0, 0)
    /\ UNCHANGED <<now, locks>>

\* lines 152-158: the update of exported_at on the ids of the run, and the
\* commit
ExportMark(i) ==
    /\ pc[i] = "export_appended"
    /\ db' = [db EXCEPT !.transactions =
                 [t \in 1..Len(@) |->
                     IF t \in TransactionIds(call[i].rows)
                     THEN [@[t] EXCEPT !.exported_at = now]
                     ELSE @[t]]]
    /\ now' = now + 1
    /\ Return(i, "export_transactions", "ok", 0, Len(call[i].rows))
    /\ UNCHANGED locks

\* ---------------------------------------------------------------- bot handlers
\* The aiogram handlers of bot/handlers.py. AuthMiddleware hands every handler
\* the StaffProfile of the sender; a handler reads and writes the FSMContext of
\* the chat. One message of a user is handled at a time. A handler that makes a
\* service call occupies a request handler i until the call has returned.

\* the texts of the reply keyboard buttons (bot/keyboards.py), and a text
\* that is on no keyboard
CashButton == "Nalichnye"
CardButton == "Karta"
TransferButton == "Perevod"
CancelButton == "Otmena"
OtherText == "abc"
TextInputs == {CashButton, CardButton, TransferButton, CancelButton, OtherText}

\* parse_payment_method: mapping.get(text, CASH)
ParsePaymentMethod(text) ==
    IF text = CashButton THEN "CASH"
    ELSE IF text = CardButton THEN "CARD"
    ELSE IF text = TransferButton THEN "TRANSFER"
    ELSE "CASH"

\* variant: every role may manage shifts
CanManageShifts_Everyone(role) == TRUE

\* StaffProfile.can_manage_shifts
CanManageShifts(role) == role \in {"ADMIN", "MANAGER"}

\* StaffProfile.can_close_shift
CanCloseShift(role) == role \in {"ADMIN", "MANAGER"}

\* the role test of start_purchase and start_transfer
IsManager(role) == role \in {"ADMIN", "MANAGER"}

\* request handler i is taken by no bot handler
Free(i) == Idle(i) /\ \A v \in Staff : fsm[v].handler # i

\* state.clear(). set_state and update_data keep the data of a conversation
\* that was left without it; every handler reads only the keys its own
\* conversation has set, so the handler that starts a conversation is
\* modelled as starting from empty data.
Cleared(u) == [fsm EXCEPT ![u] = NoFsm]

\* the handler of user u has returned and the conversation goes on
Released(u) == [fsm EXCEPT ![u].handler = 0, ![u].calls = "none"]

\* message.answer of a handler that returns without a service call
Answer(op, status, info) == last' = Outcome(0, op, status, info, 0)

\* Shift.objects.filter(location=staff_profile.location, is_closed=False).first()
FirstOpenShift(d, loc) ==
    LET open == OpenShiftIds(d, loc)
    IN IF open = {} THEN 0 ELSE CHOOSE s \in open : \A t \in open : s <= t

\* DisplayStock.objects.filter(product=product, location=...).first() is a row
DisplayRowAt(d, p, loc) == d.display_rows[p] > 0 /\ d.display_location[p] = loc

\* cmd_start, back_to_main, cancel_action: registered before every state
\* handler, they clear the conversation in any state
ClearConversation(u) ==
    /\ fsm[u].handler = 0
    /\ fsm[u].state # "none"
    /\ fsm' = Cleared(u)
    /\ UNCHANGED <<db, now, pc, call, obj, locks, last, profiles>>

\* open_shift
OpenShift(u, i) ==
    /\ fsm[u].handler = 0
    /\ Free(i)
    /\ IF ~CanManageShifts(profiles[u].role)
       THEN /\ Answer("open_shift", "NoPermission", u)
            /\ UNCHANGED fsm
       ELSE /\ fsm' = [fsm EXCEPT ![u].handler = i, ![u].calls = "start_shift"]
            /\ UNCHANGED last
    /\ UNCHANGED <<db, now, pc, call, obj, locks, profiles>>

\* open_shift, lines 179-187: ShiftService.start_shift for the staff member
\* and their location
OpenShiftCall(u, i) ==
    /\ fsm[u].handler = i
    /\ fsm[u].calls = "start_shift"
    /\ StartShiftCheck(i, u, profiles[u].location)
    /\ fsm' = IF pc'[i] = "start_insert" THEN fsm ELSE Released(u)
    /\ UNCHANGED profiles

\* open_shift, line 187: start_shift goes on to its insert and returns
OpenShiftInsert(u, i) ==
    /\ fsm[u].handler = i
    /\ fsm[u].calls = "start_shift"
    /\ StartShiftInsert(i)
    /\ fsm' = Released(u)
    /\ UNCHANGED profiles

\* close_shift_confirm (get_shift_summary, which it shows, writes nothing)
CloseShiftConfirm(u) ==
    /\ fsm[u].handler = 0
    /\ IF ~CanCloseShift(profiles[u].role)
       THEN /\ Answer("close_shift_confirm", "NoPermission", u)
            /\ UNCHANGED fsm
       ELSE /\ FirstOpenShift(db, profiles[u].location) # 0
            /\ fsm' = [fsm EXCEPT ![u] =
                  [NoFsm EXCEPT !.state = "ShiftStates:waiting_for_close_confirmation",
                                !.shift_id = FirstOpenShift(db, profiles[u].location)]]
            /\ UNCHANGED last
    /\ UNCHANGED <<db, now, pc, call, obj, locks, profiles>>

\* close_shift_confirmed, lines 261-267: Shift.objects.get(id=shift_id)
CloseShiftConfirmed(u, i) ==
    /\ fsm[u].handler = 0
    /\ fsm[u].state = "ShiftStates:waiting_for_close_confirmation"
    /\ Free(i)
    /\ LoadShift(i, fsm[u].shift_id)
    /\ fsm' = [fsm EXCEPT ![u].handler = i, ![u].calls = "close_shift"]
    /\ UNCHANGED profiles

\* close_shift_confirmed, lines 269-294: ShiftService.close_shift, then
\* state.clear() whether it raised or not
CloseShiftCall(u, i) ==
    /\ fsm[u].handler = i
    /\ fsm[u].calls = "close_shift"
    /\ CloseShift(i)
    /\ fsm' = Cleared(u)
    /\ UNCHANGED profiles

\* close_shift_cancelled
CloseShiftCancelled(u) ==
    /\ fsm[u].handler = 0
    /\ fsm[u].state = "ShiftStates:waiting_for_close_confirmation"
    /\ fsm' = Cleared(u)
    /\ UNCHANGED <<db, now, pc, call, obj, locks, last, profiles>>

\* start_sale and start_refund: the open shift of the location is remembered
StartFlow(u, group) ==
    /\ fsm[u].handler = 0
    /\ FirstOpenShift(db, profiles[u].location) # 0
    /\ fsm' = [fsm EXCEPT ![u] = [NoFsm EXCEPT !.state = group \o ":waiting_for_product",
                                  !.shift_id = FirstOpenShift(db, profiles[u].location)]]
    /\ UNCHANGED <<db, now, pc, call, obj, locks, last, profiles>>

StartSale(u) == StartFlow(u, "SaleStates")

StartRefund(u) == StartFlow(u, "RefundStates")

\* sale_product_selected
SaleProductSelected(u, p) ==
    /\ fsm[u].handler = 0
    /\ fsm[u].state = "SaleStates:waiting_for_product"
    /\ ProductLocation[p] = profiles[u].location
    /\ ProductActive[p]
    /\ DisplayRowAt(db, p, profiles[u].location)
    /\ db.display[p] > 0
    /\ fsm' = [fsm EXCEPT ![u].product_id = p, ![u].state = "SaleStates:waiting_for_quantity"]
    /\ UNCHANGED <<db, now, pc, call, obj, locks, last, profiles>>

\* sale_quantity_entered
SaleQuantityEntered(u, q) ==
    /\ fsm[u].handler = 0
    /\ fsm[u].state = "SaleStates:waiting_for_quantity"
    /\ q > 0
    /\ IF ~DisplayRowAt(db, fsm[u].product_id, profiles[u].location)
       THEN fsm' = Cleared(u)
       ELSE /\ q <= db.display[fsm[u].product_id]
            /\ fsm' = [fsm EXCEPT ![u].quantity = q,
                                  ![u].state = "SaleStates:waiting_for_payment_method"]
    /\ UNCHANGED <<db, now, pc, call, obj, locks, last, profiles>>

\* refund_product_selected
RefundProductSelected(u, p) ==
    /\ fsm[u].handler = 0
    /\ fsm[u].state = "RefundStates:waiting_for_product"
    /\ ProductLocation[p] = profiles[u].location
    /\ ProductActive[p]
    /\ fsm' = [fsm EXCEPT ![u].product_id = p, ![u].state = "RefundStates:waiting_for_quantity"]
    /\ UNCHANGED <<db, now, pc, call, obj, locks, last, profiles>>

\* refund_quantity_entered
RefundQuantityEntered(u, q) ==
    /\ fsm[u].handler = 0
    /\ fsm[u].state = "RefundStates:waiting_for_quantity"
    /\ q > 0
    /\ fsm' = [fsm EXCEPT ![u].quantity = q,
                          ![u].state = "RefundStates:waiting_for_payment_method"]
    /\ UNCHANGED <<db, now, pc, call, obj, locks, last, profiles>>

\* variant: the payment step does not look at the shift again
ShiftStillOpen_Unchecked(d, sid) == TRUE

\* check_shift_open: Shift.objects.filter(id=shift_id, is_closed=False).exists()
ShiftStillOpen(d, sid) == sid \in 1..Len(d.shifts) /\ ~d.shifts[sid].is_closed

\* select_payment_method, lines 503-532, and select_refund_payment_method,
\* lines 745-774: the cancel text, parse_payment_method, and the look at the
\* remembered shift
PaymentStep(u, i, text, group, service) ==
    /\ fsm[u].handler = 0
    /\ fsm[u].state = group \o ":waiting_for_payment_method"
    /\ Free(i)
    /\ IF text = CancelButton
       THEN /\ fsm' = Cleared(u)
            /\ UNCHANGED last
       ELSE IF ~ShiftStillOpen(db, fsm[u].shift_id)
       THEN /\ fsm' = Cleared(u)
            /\ Answer(service, "ShiftWasClosed", fsm[u].shift_id)
       ELSE /\ fsm' = [fsm EXCEPT ![u].handler = i,
                                  ![u].calls = service,
                                  ![u].text = text,
                                  ![u].payment_method = ParsePaymentMethod(text)]
            /\ UNCHANGED last
    /\ UNCHANGED <<db, now, pc, call, obj, locks, profiles>>

SelectPaymentMethod(u, i, text) == PaymentStep(u, i, text, "SaleStates", "create_sale")

SelectRefundPaymentMethod(u, i, text) ==
    PaymentStep(u, i, text, "RefundStates", "create_refund")

\* select_payment_method, line 537, and select_refund_payment_method, line
\* 779: Shift.objects.get(id=shift_id)
PaymentLoad(u, i) ==
    /\ fsm[u].handler = i
    /\ fsm[u].calls \in {"create_sale", "create_refund"}
    /\ LoadShift(i, fsm[u].shift_id)
    /\ UNCHANGED botvars

\* select_payment_method, lines 541-546: create_sale with the remembered
\* product and quantity; lines 603-609 when it raised in its guards
SaleCall(u, i) ==
    /\ fsm[u].handler = i
    /\ fsm[u].calls = "create_sale"
    /\ SaleBegin(i, fsm[u].product_id, fsm[u].quantity)
    /\ fsm' = IF pc'[i] = "idle" THEN Cleared(u) ELSE fsm
    /\ UNCHANGED profiles

\* select_payment_method, lines 549-609: create_sale returns or raises, and
\* state.clear()
SaleReturn(u, i) ==
    /\ fsm[u].handler = i
    /\ fsm[u].calls = "create_sale"
    /\ SaleFinish(i, fsm[u].payment_method)
    /\ fsm' = Cleared(u)
    /\ UNCHANGED profiles

\* select_refund_payment_method, lines 783-851: create_refund, state.clear()
RefundCall(u, i) ==
    /\ fsm[u].handler = i
    /\ fsm[u].calls = "create_refund"
    /\ CreateRefund(i, fsm[u].product_id, fsm[u].quantity, fsm[u].payment_method)
    /\ fsm' = Cleared(u)
    /\ UNCHANGED profiles

\* start_purchase and start_transfer
StartStockFlow(u, group, op) ==
    /\ fsm[u].handler = 0
    /\ IF ~IsManager(profiles[u].role)
       THEN /\ Answer(op, "NoPermission", u)
            /\ UNCHANGED fsm
       ELSE /\ fsm' = [fsm EXCEPT ![u] = [NoFsm EXCEPT !.state = group \o ":waiting_for_product"]]
            /\ UNCHANGED last
    /\ UNCHANGED <<db, now, pc, call, obj, locks, profiles>>

StartPurchase(u) == StartStockFlow(u, "PurchaseStates", "start_purchase")

StartTransfer(u) == StartStockFlow(u, "TransferStates", "start_transfer")

\* purchase_product_selected
PurchaseProductSelected(u, p) ==
    /\ fsm[u].handler = 0
    /\ fsm[u].state = "PurchaseStates:waiting_for_product"
    /\ ProductLocation[p] = profiles[u].location
    /\ fsm' = [fsm EXCEPT ![u].product_id = p,
                          ![u].state = "PurchaseStates:waiting_for_quantity"]
    /\ UNCHANGED <<db, now, pc, call, obj, locks, last, profiles>>

\* purchase_quantity_entered
PurchaseQuantityEntered(u, q) ==
    /\ fsm[u].handler = 0
    /\ fsm[u].state = "PurchaseStates:waiting_for_quantity"
    /\ q > 0
    /\ fsm' = [fsm EXCEPT ![u].quantity = q, ![u].state = "PurchaseStates:waiting_for_price"]
    /\ UNCHANGED <<db, now, pc, call, obj, locks, last, profiles>>

\* purchase_price_entered
PurchasePriceEntered(u, price) ==
    /\ fsm[u].handler = 0
    /\ fsm[u].state = "PurchaseStates:waiting_for_price"
    /\ price >= 0
    /\ fsm' = [fsm EXCEPT ![u].purchase_price = price,
                          ![u].state = "PurchaseStates:waiting_for_supplier"]
    /\ UNCHANGED <<db, now, pc, call, obj, locks, last, profiles>>

\* purchase_supplier_entered, lines 1517-1522
PurchaseSupplierEntered(u, i) ==
    /\ fsm[u].handler = 0
    /\ fsm[u].state = "PurchaseStates:waiting_for_supplier"
    /\ Free(i)
    /\ fsm' = [fsm EXCEPT ![u].handler = i, ![u].calls = "purchase"]
    /\ UNCHANGED <<db, now, pc, call, obj, locks, last, profiles>>

\* purchase_supplier_entered, lines 1524-1559: InventoryService.purchase at
\* the location of the staff member, state.clear() whether it raised or not
PurchaseCall(u, i) ==
    /\ fsm[u].handler = i
    /\ fsm[u].calls = "purchase"
    /\ PurchaseAt(i, fsm[u].product_id, profiles[u].location, fsm[u].quantity,
                  fsm[u].purchase_price)
    /\ fsm' = Cleared(u)
    /\ UNCHANGED profiles

\* transfer_product_selected: the StorageStock row is read with get_or_create
TransferProductSelected(u, p) ==
    /\ fsm[u].handler = 0
    /\ fsm[u].state = "TransferStates:waiting_for_product"
    /\ ProductLocation[p] = profiles[u].location
    /\ StockRowLookup(db.storage_rows[p], db.storage_location[p], profiles[u].location)
          # "IntegrityError"
    /\ db' = WithStorageRow(db, p, profiles[u].location)
    /\ fsm' = IF StorageQty(db', p) <= 0 THEN fsm
              ELSE [fsm EXCEPT ![u].product_id = p,
                               ![u].state = "TransferStates:waiting_for_quantity"]
    /\ UNCHANGED <<now, pc, call, obj, locks, last, profiles>>

\* transfer_quantity_entered, lines 1637-1651
TransferQuantityEntered(u, i, q) ==
    /\ fsm[u].handler = 0
    /\ fsm[u].state = "TransferStates:waiting_for_quantity"
    /\ q > 0
    /\ Free(i)
    /\ fsm' = [fsm EXCEPT ![u].quantity = q, ![u].handler = i, ![u].calls = "transfer"]
    /\ UNCHANGED <<db, now, pc, call, obj, locks, last, profiles>>

\* transfer_quantity_entered, lines 1653-1661: InventoryService.transfer at
\* the location of the staff member
TransferCall(u, i) ==
    /\ fsm[u].handler = i
    /\ fsm[u].calls = "transfer"
    /\ TransferLockAt(i, fsm[u].product_id, profiles[u].location, fsm[u].quantity)
    /\ fsm' = IF pc'[i] = "idle" THEN Cleared(u) ELSE fsm
    /\ UNCHANGED profiles

\* transfer_quantity_entered: transfer goes on to its storage check
TransferCheckCall(u, i) ==
    /\ fsm[u].handler = i
    /\ fsm[u].calls = "transfer"
    /\ TransferCheck(i)
    /\ fsm' = IF pc'[i] = "idle" THEN Cleared(u) ELSE fsm
    /\ UNCHANGED profiles

\* transfer_quantity_entered, lines 1673-1692: transfer returns, state.clear()
TransferReturn(u, i) ==
    /\ fsm[u].handler = i
    /\ fsm[u].calls = "transfer"
    /\ TransferFinish(i)
    /\ fsm' = Cleared(u)
    /\ UNCHANGED profiles

\* the StaffProfile rows of the bot's users
BotProfiles(r) ==
    [u \in Staff |-> [role |-> IF u = 1 THEN r ELSE "CASHIER", location |-> StaffLocation[u]]]

\* the shop at work: the shifts of ThreeShifts, and product 1 after a purchase
\* of MaxStock units of which one was moved to the display
StockedDb ==
    [EmptyDb EXCEPT !.shifts = ThreeShifts,
                    !.storage[1] = MaxStock - 1,
                    !.display[1] = 1,
                    !.display_location[1] = ProductLocation[1],
                    !.display_rows[1] = 1,
                    !.last_purchase_price[1] = 4,
                    !.purchases = <<PurchaseRow(1, MaxStock, 4)>>,
                    !.transfers = <<TransferRow(1, 1)>>]

InitBotSale ==
    /\ db = StockedDb
    /\ now = 2
    /\ pc = [i \in Procs |-> "idle"]
    /\ call = [i \in Procs |-> NoCall]
    /\ obj = [i \in Procs |-> NoObj]
    /\ locks = [t \in {"product", "storage", "display"} |-> [p \in Products |-> 0]]
    /\ last = NoLast
    /\ \E r \in Roles \ {"CASHIER"} : profiles = BotProfiles(r)
    /\ fsm = [u \in Staff |-> NoFsm]

\* the StaffProfile table: staff member 1 manages the location (as ADMIN or
\* as MANAGER), staff member 2 is its cashier
InitBot ==
    /\ db = EmptyDb
    /\ now = 1
    /\ pc = [i \in Procs |-> "idle"]
    /\ call = [i \in Procs |-> NoCall]
    /\ obj = [i \in Procs |-> NoObj]
    /\ locks = [t \in {"product", "storage", "display"} |-> [p \in Products |-> 0]]
    /\ last = NoLast
    /\ \E r \in Roles \ {"CASHIER"} : profiles = BotProfiles(r)
    /\ fsm = [u \in Staff |-> NoFsm]

\* ---------------------------------------------------------------- Next
\* the shift lifecycle with the calls that take a Shift object
Next ==
    \/ /\ \E i \in Procs, st \in Staff, loc \in Locations : StartShiftCheck(i, st, loc)
       /\ UNCHANGED botvars
    \/ /\ \E i \in Procs : StartShiftInsert(i)
       /\ UNCHANGED botvars
    \/ /\ \E i \in Procs, s \in 1..Len(db.shifts) : LoadShift(i, s)
       /\ UNCHANGED botvars
    \/ /\ \E i \in Procs : CloseShift(i)
       /\ UNCHANGED botvars
    \/ /\ \E i \in Procs, p \in Products, q \in QtyInputs : SaleBegin(i, p, q)
       /\ UNCHANGED botvars
    \/ /\ \E i \in Procs, m \in Methods : SaleFinish(i, m)
       /\ UNCHANGED botvars
    \/ /\ \E i \in Procs, p \in Products, q \in QtyInputs, m \in Methods :
              CreateRefund(i, p, q, m)
       /\ UNCHANGED botvars
    \/ /\ \E i \in Procs, p \in Products, q \in QtyInputs : CreateAdjustment(i, p, q)
       /\ UNCHANGED botvars
    \/ /\ \E i \in Procs : GetShiftSummary(i)
       /\ UNCHANGED botvars

Spec == Init /\ [][Next]_vars

\* the stock movements and the transaction calls over existing shifts
NextStock ==
    \/ /\ \E i \in Procs, s \in 1..Len(db.shifts) : LoadShift(i, s)
       /\ UNCHANGED botvars
    \/ /\ \E i \in Procs, p \in Products, q \in QtyInputs : SaleBegin(i, p, q)
       /\ UNCHANGED botvars
    \/ /\ \E i \in Procs, m \in Methods : SaleFinish(i, m)
       /\ UNCHANGED botvars
    \/ /\ \E i \in Procs, p \in Products, q \in QtyInputs, m \in Methods :
              CreateRefund(i, p, q, m)
       /\ UNCHANGED botvars
    \/ /\ \E i \in Procs, p \in Products, q \in QtyInputs : CreateAdjustment(i, p, q)
       /\ UNCHANGED botvars
    \/ /\ \E i \in Procs, p \in Products, q \in QtyInputs, pr \in PriceInputs :
              Purchase(i, p, q, pr)
       /\ UNCHANGED botvars
    \/ /\ \E i \in Procs, p \in Products, q \in QtyInputs : TransferLock(i, p, q)
       /\ UNCHANGED botvars
    \/ /\ \E i \in Procs : TransferCheck(i)
       /\ UNCHANGED botvars
    \/ /\ \E i \in Procs : TransferFinish(i)
       /\ UNCHANGED botvars

SpecStock == InitStock /\ [][NextStock]_vars

\* closing and reporting over a recorded ledger
NextReport ==
    \/ /\ \E i \in Procs, s \in 1..Len(db.shifts) : LoadShift(i, s)
       /\ UNCHANGED botvars
    \/ /\ \E i \in Procs : CloseShift(i)
       /\ UNCHANGED botvars
    \/ /\ \E i \in Procs : GetShiftSummary(i)
       /\ UNCHANGED botvars
    \/ /\ \E i \in Procs : GetFinancialReport(i)
       /\ UNCHANGED botvars
    \/ /\ \E i \in Procs, loc \in Locations : GetInventoryReport(i, loc)
       /\ UNCHANGED botvars

SpecReport == InitLedger /\ [][NextReport]_vars

\* the stock calls made with any location, and refunds
NextRows ==
    \/ /\ \E i \in Procs, s \in 1..Len(db.shifts) : LoadShift(i, s)
       /\ UNCHANGED botvars
    \/ /\ \E i \in Procs, p \in Products, q \in QtyInputs, m \in Methods :
              CreateRefund(i, p, q, m)
       /\ UNCHANGED botvars
    \/ /\ \E i \in Procs, p \in Products, loc \in Locations, q \in QtyInputs, pr \in PriceInputs :
              PurchaseAt(i, p, loc, q, pr)
       /\ UNCHANGED botvars
    \/ /\ \E i \in Procs, p \in Products, loc \in Locations, q \in QtyInputs :
              TransferLockAt(i, p, loc, q)
       /\ UNCHANGED botvars
    \/ /\ \E i \in Procs : TransferCheck(i)
       /\ UNCHANGED botvars
    \/ /\ \E i \in Procs : TransferFinish(i)
       /\ UNCHANGED botvars

SpecRows == InitStock /\ [][NextRows]_vars

\* export runs over a recorded ledger
NextExport ==
    \/ /\ \E i \in Procs, enabled \in BOOLEAN, batch_size \in 1..MaxRows :
              ExportRead(i, enabled, batch_size)
       /\ UNCHANGED botvars
    \/ /\ \E i \in Procs, appended \in BOOLEAN : ExportAppend(i, appended)
       /\ UNCHANGED botvars
    \/ /\ \E i \in Procs : ExportMark(i)
       /\ UNCHANGED botvars

SpecExport == InitLedger /\ [][NextExport]_vars

\* the conversations that manage shifts and stock
NextBot ==
    \/ \E u \in Staff : ClearConversation(u)
    \/ \E u \in Staff, i \in Procs : OpenShift(u, i)
    \/ \E u \in Staff, i \in Procs : OpenShiftCall(u, i)
    \/ \E u \in Staff, i \in Procs : OpenShiftInsert(u, i)
    \/ \E u \in Staff : CloseShiftConfirm(u)
    \/ \E u \in Staff, i \in Procs : CloseShiftConfirmed(u, i)
    \/ \E u \in Staff, i \in Procs : CloseShiftCall(u, i)
    \/ \E u \in Staff : CloseShiftCancelled(u)
    \/ \E u \in Staff : StartPurchase(u)
    \/ \E u \in Staff : StartTransfer(u)
    \/ \E u \in Staff, p \in Products : PurchaseProductSelected(u, p)
    \/ \E u \in Staff, q \in QtyInputs : PurchaseQuantityEntered(u, q)
    \/ \E u \in Staff, pr \in PriceInputs : PurchasePriceEntered(u, pr)
    \/ \E u \in Staff, i \in Procs : PurchaseSupplierEntered(u, i)
    \/ \E u \in Staff, i \in Procs : PurchaseCall(u, i)
    \/ \E u \in Staff, p \in Products : TransferProductSelected(u, p)
    \/ \E u \in Staff, i \in Procs, q \in QtyInputs : TransferQuantityEntered(u, i, q)
    \/ \E u \in Staff, i \in Procs : TransferCall(u, i)
    \/ \E u \in Staff, i \in Procs : TransferCheckCall(u, i)
    \/ \E u \in Staff, i \in Procs : TransferReturn(u, i)

SpecBot == InitBot /\ [][NextBot]_vars

\* the sale and refund conversations, and the closing of the shift
NextBotSale ==
    \/ \E u \in Staff : ClearConversation(u)
    \/ \E u \in Staff : CloseShiftConfirm(u)
    \/ \E u \in Staff, i \in Procs : CloseShiftConfirmed(u, i)
    \/ \E u \in Staff, i \in Procs : CloseShiftCall(u, i)
    \/ \E u \in Staff : CloseShiftCancelled(u)
    \/ \E u \in Staff : StartSale(u)
    \/ \E u \in Staff : StartRefund(u)
    \/ \E u \in Staff, p \in Products : SaleProductSelected(u, p)
    \/ \E u \in Staff, q \in QtyInputs : SaleQuantityEntered(u, q)
    \/ \E u \in Staff, p \in Products : RefundProductSelected(u, p)
    \/ \E u \in Staff, q \in QtyInputs : RefundQuantityEntered(u, q)
    \/ \E u \in Staff, i \in Procs, text \in TextInputs : SelectPaymentMethod(u, i, text)
    \/ \E u \in Staff, i \in Procs, text \in TextInputs : SelectRefundPaymentMethod(u, i, text)
    \/ \E u \in Staff, i \in Procs : PaymentLoad(u, i)
    \/ \E u \in Staff, i \in Procs : SaleCall(u, i)
    \/ \E u \in Staff, i \in Procs : SaleReturn(u, i)
    \/ \E u \in Staff, i \in Procs : RefundCall(u, i)

SpecBotSale == InitBotSale /\ [][NextBotSale]_vars

\* ---------------------------------------------------------------- properties
OpenAt(d, loc) ==
    {s \in 1..Len(d.shifts) : d.shifts[s].location = loc /\ ~d.shifts[s].is_closed}

\* C1: in every reachable state, under any interleaving of start_shift and
\* close_shift calls, every location has at most one shift with
\* is_closed = FALSE.
C1_AtMostOneOpenShift ==
    \A loc \in Locations : Cardinality(OpenAt(db, loc)) <= 1

\* two start_shift calls raced for a location: one shift is open there and the
\* other call was stopped by the constraint
C1_Witness ==
    /\ last.op = "start_shift"
    /\ last.status = "IntegrityError"
    /\ \E loc \in Locations : Cardinality(OpenAt(db, loc)) = 1

\* C2: of concurrent start_shift calls for one location exactly one succeeds
\* and every other one fails with ShiftAlreadyOpen, never with another error:
\* every start_shift call returns a shift or ShiftAlreadyOpen.
C2_LosersGetShiftAlreadyOpen ==
    last.op = "start_shift" => last.status \in {"ok", "ShiftAlreadyOpen"}

\* C3: start_shift at a location without an open shift succeeds and returns a
\* new open shift with total_sales 0; a start_shift at a location that has an
\* open shift fails with ShiftAlreadyOpen naming the staff member who holds
\* that shift, and creates no shift.
C3_StartShift ==
    [][\A i \in Procs :
        /\ \A st \in Staff, loc \in Locations :
              StartShiftCheck(i, st, loc) =>
                 IF OpenAt(db, loc) = {}
                 THEN pc'[i] = "start_insert" /\ last' = last
                 ELSE /\ last'.op = "start_shift"
                      /\ last'.status = "ShiftAlreadyOpen"
                      /\ \E s \in OpenAt(db, loc) : last'.info = db.shifts[s].staff
                      /\ db'.shifts = db.shifts
        /\ (StartShiftInsert(i) /\ OpenAt(db, call[i].location) = {}) =>
              /\ last'.op = "start_shift"
              /\ last'.status = "ok"
              /\ last'.ret = Len(db.shifts) + 1
              /\ Len(db'.shifts) = Len(db.shifts) + 1
              /\ SubSeq(db'.shifts, 1, Len(db.shifts)) = db.shifts
              /\ db'.shifts[last'.ret].location = call[i].location
              /\ db'.shifts[last'.ret].staff = call[i].staff
              /\ ~db'.shifts[last'.ret].is_closed
              /\ db'.shifts[last'.ret].total_sales = 0
    ]_vars

\* a second start_shift at a location was refused with the name of the holder
\* of the open shift, after that location had already had a closed shift
C3_Witness ==
    /\ last.op = "start_shift"
    /\ last.status = "ShiftAlreadyOpen"
    /\ \E s \in 1..Len(db.shifts), c \in 1..Len(db.shifts) :
          /\ ~db.shifts[s].is_closed
          /\ db.shifts[s].staff = last.info
          /\ db.shifts[c].is_closed
          /\ db.shifts[c].location = db.shifts[s].location

\* C4: StorageStock.quantity >= 0 and DisplayStock.quantity >= 0 for every
\* product in every reachable state, under any interleaving of purchase,
\* transfer, create_sale, create_refund and create_adjustment calls.
C4_StockNonNegative ==
    \A p \in Products :
        /\ db.storage[p] = NoRow \/ db.storage[p] >= 0
        /\ db.display[p] = NoRow \/ db.display[p] >= 0

\* stock was moved to the display and a later transfer was refused for lack
\* of storage stock
C4_Witness ==
    /\ last.op = "transfer"
    /\ last.status = "InsufficientStock"
    /\ \E p \in Products : db.display[p] # NoRow /\ db.display[p] > 0

RECURSIVE SumPurchased(_, _)
SumPurchased(rows, p) ==
    IF rows = <<>> THEN 0
    ELSE (IF Head(rows).product = p THEN Head(rows).quantity ELSE 0)
         + SumPurchased(Tail(rows), p)

RECURSIVE SumDelta(_, _)
SumDelta(rows, p) ==
    IF rows = <<>> THEN 0
    ELSE (IF Head(rows).product = p THEN Head(rows).delta ELSE 0)
         + SumDelta(Tail(rows), p)

OnDisplay(d, p) == IF d.display[p] = NoRow THEN 0 ELSE d.display[p]
InStorage(d, p) == IF d.storage[p] = NoRow THEN 0 ELSE d.storage[p]

\* C6: for every product, StorageStock + DisplayStock equals the purchased
\* quantities plus the refunded quantities minus the sold quantities plus the
\* signed adjustment quantities of the recorded operations; transfers
\* contribute nothing.
C6_Conservation ==
    \A p \in Products :
        InStorage(db, p) + OnDisplay(db, p)
            = SumPurchased(db.purchases, p) + SumDelta(db.transactions, p)

\* a product was purchased twice and partly transferred, and a sale of it was
\* attempted
C6_Witness ==
    /\ last.op = "create_sale"
    /\ last.status = "AttributeError"
    /\ Len(db.purchases) = 2
    /\ \E p \in Products : db.storage[p] > 0 /\ OnDisplay(db, p) > 0

\* C7: create_sale fails with InsufficientStock, reporting the display
\* quantity, whenever the product's DisplayStock quantity is less than qty,
\* whatever its StorageStock, and leaves DisplayStock unchanged.
C7_InsufficientDisplayStock ==
    [][\A i \in Procs, m \in Methods :
        (SaleFinish(i, m) /\ OnDisplay(db, call[i].product) < call[i].qty) =>
            /\ last'.op = "create_sale"
            /\ last'.status = "InsufficientStock"
            /\ last'.info = OnDisplay(db, call[i].product)
            /\ db'.display = db.display
    ]_vars

\* C8: a create_sale that passes the guards with enough display stock
\* succeeds: it decreases DisplayStock by qty, leaves StorageStock unchanged,
\* appends one SALE Transaction with quantity qty and amount price x qty, and
\* one Payment with the given method and the same amount.
C8_SaleEffects ==
    [][\A i \in Procs, m \in Methods :
        (SaleFinish(i, m) /\ OnDisplay(db, call[i].product) >= call[i].qty) =>
            LET p == call[i].product
                q == call[i].qty
                t == Len(db.transactions) + 1
                k == Len(db.payments) + 1
            IN /\ last'.op = "create_sale"
               /\ last'.status = "ok"
               /\ db'.display[p] = db.display[p] - q
               /\ db'.storage = db.storage
               /\ Len(db'.transactions) = t
               /\ SubSeq(db'.transactions, 1, t - 1) = db.transactions
               /\ db'.transactions[t].type = "SALE"
               /\ db'.transactions[t].shift = obj[i].id
               /\ db'.transactions[t].product = p
               /\ db'.transactions[t].qty = q
               /\ db'.transactions[t].amount = ProductPrice[p] * q
               /\ Len(db'.payments) = k
               /\ SubSeq(db'.payments, 1, k - 1) = db.payments
               /\ db'.payments[k] = [transaction |-> t, method |-> m,
                                     amount |-> ProductPrice[p] * q]
    ]_vars

\* C9: create_sale fails and writes nothing whenever the shift it is handed is
\* closed (ShiftClosed), the shift's location is not the product's
\* (LocationMismatch), the product is inactive (ProductInactive) or qty <= 0
\* (InvalidQuantity): the call returns one of the errors whose condition
\* holds, ShiftClosed whenever the shift is closed.
C9_SaleGuards ==
    [][\A i \in Procs, p \in Products, q \in QtyInputs :
        SaleBegin(i, p, q) =>
            LET applicable ==
                    (IF obj[i].is_closed THEN {"ShiftClosed"} ELSE {})
                    \cup (IF obj[i].location # ProductLocation[p]
                          THEN {"LocationMismatch"} ELSE {})
                    \cup (IF ~ProductActive[p] THEN {"ProductInactive"} ELSE {})
                    \cup (IF q <= 0 THEN {"InvalidQuantity"} ELSE {})
            IN applicable # {} =>
                  /\ pc'[i] = "idle"
                  /\ last'.op = "create_sale"
                  /\ last'.status \in applicable
                  /\ obj[i].is_closed => last'.status = "ShiftClosed"
                  /\ db' = db
                  /\ locks' = locks
    ]_vars

\* a sale of the inactive product was refused on an open shift of the
\* product's location
C9_Witness ==
    /\ last.op = "create_sale"
    /\ last.status = "ProductInactive"

\* C11: a create_refund on an open shift with qty > 0 succeeds, increases the
\* product's DisplayStock by exactly qty (a missing row counting as 0) and
\* leaves StorageStock unchanged; on a closed shift it fails with ShiftClosed
\* and writes nothing.
C11_RefundEffects ==
    [][\A i \in Procs, p \in Products, q \in QtyInputs, m \in Methods :
        CreateRefund(i, p, q, m) =>
            IF obj[i].is_closed
            THEN last'.status = "ShiftClosed" /\ db' = db
            ELSE q > 0 =>
                    /\ last'.op = "create_refund"
                    /\ last'.status = "ok"
                    /\ db'.display[p] = OnDisplay(db, p) + q
                    /\ db'.storage = db.storage
    ]_vars

\* C12: create_refund stores the REFUND Transaction and its Payment with the
\* negative sign convention: both amounts equal -(qty x product.price).
C12_RefundAmountNegative ==
    [][\A i \in Procs, p \in Products, q \in QtyInputs, m \in Methods :
        (CreateRefund(i, p, q, m) /\ ~obj[i].is_closed /\ q > 0) =>
            LET t == Len(db.transactions) + 1
                k == Len(db.payments) + 1
            IN /\ Len(db'.transactions) = t
               /\ db'.transactions[t].type = "REFUND"
               /\ db'.transactions[t].amount = -(q * ProductPrice[p])
               /\ Len(db'.payments) = k
               /\ db'.payments[k].transaction = t
               /\ db'.payments[k].amount = -(q * ProductPrice[p])
    ]_vars

\* C13: create_refund returns a Transaction of type REFUND whose qty is the
\* requested qty and whose amount is product.price x qty, a positive value.
C13_RefundReturnsPositiveAmount ==
    [][\A i \in Procs, p \in Products, q \in QtyInputs, m \in Methods :
        (CreateRefund(i, p, q, m) /\ ~obj[i].is_closed /\ q > 0) =>
            /\ last'.op = "create_refund"
            /\ last'.status = "ok"
            /\ last'.ret \in 1..Len(db'.transactions)
            /\ db'.transactions[last'.ret].type = "REFUND"
            /\ db'.transactions[last'.ret].qty = q
            /\ db'.transactions[last'.ret].amount = ProductPrice[p] * q
            /\ db'.transactions[last'.ret].amount > 0
    ]_vars

Magnitude(x) == IF x < 0 THEN -x ELSE x

\* the magnitudes of the amounts of the Transactions of one type of a shift
RECURSIVE SumOfType(_, _, _)
SumOfType(rows, sid, type) ==
    IF rows = <<>> THEN 0
    ELSE (IF Head(rows).shift = sid /\ Head(rows).type = type
          THEN Magnitude(Head(rows).amount) ELSE 0)
         + SumOfType(Tail(rows), sid, type)

\* the magnitudes of the first k Payments of one method that belong to the
\* Transactions of one type of a shift
RECURSIVE SumPaid(_, _, _, _, _)
SumPaid(d, k, sid, type, m) ==
    IF k = 0 THEN 0
    ELSE LET pay == d.payments[k]
             t == d.transactions[pay.transaction]
         IN (IF pay.method = m /\ t.shift = sid /\ t.type = type
             THEN Magnitude(pay.amount) ELSE 0)
            + SumPaid(d, k - 1, sid, type, m)

\* C14: get_shift_summary of a shift with any mix of sales and refunds returns
\* sales_total = the sum of the sale amounts, refunds_total = the sum of the
\* refund magnitudes (not negative), net_total = sales_total - refunds_total,
\* and for each method the sale payments of the method minus the refund
\* magnitudes of the method.
C14_ShiftSummary ==
    [][\A i \in Procs :
        GetShiftSummary(i) =>
            LET sid == obj[i].id
                r == last'.summary
                n == Len(db.payments)
                net(m) == SumPaid(db, n, sid, "SALE", m) - SumPaid(db, n, sid, "REFUND", m)
            IN /\ last'.op = "get_shift_summary"
               /\ r.sales_total = SumOfType(db.transactions, sid, "SALE")
               /\ r.refunds_total = SumOfType(db.transactions, sid, "REFUND")
               /\ r.refunds_total >= 0
               /\ r.net_total = r.sales_total - r.refunds_total
               /\ r.total_cash = net("CASH")
               /\ r.total_card = net("CARD")
               /\ r.total_transfer = net("TRANSFER")
               /\ db' = db
    ]_vars

\* the summary of a shift with a sale of 2 units at price 5 and a cash refund
\* of 1 unit: sales 10, refunds 5, cash 5, net 5
C14_Witness ==
    /\ last.op = "get_shift_summary"
    /\ last.summary.sales_total = 10
    /\ last.summary.refunds_total = 5
    /\ last.summary.total_cash = 5
    /\ last.summary.net_total = 5

\* C15: close_shift on a shift that is already closed fails with
\* ShiftAlreadyClosed and leaves total_sales, total_cash, total_card,
\* total_transfer and closed_at (and every other row) as they were.
C15_CloseClosedShift ==
    [][\A i \in Procs :
        (CloseShift(i) /\ obj[i].is_closed) =>
            /\ last'.op = "close_shift"
            /\ last'.status = "ShiftAlreadyClosed"
            /\ db' = db
    ]_vars

\* a shift with sales was closed, loaded again and closed again: the second
\* close was refused
C15_Witness ==
    /\ last.op = "close_shift"
    /\ last.status = "ShiftAlreadyClosed"
    /\ \E s \in 1..Len(db.shifts) :
          db.shifts[s].is_closed /\ db.shifts[s].total_sales > 0

\* C16: each shift is closed at most once: a close request for a shift that
\* is closed in the database, including a request that loaded the shift while
\* it was still open, fails with ShiftAlreadyClosed and writes nothing.
C16_ClosedAtMostOnce ==
    [][\A i \in Procs :
        (CloseShift(i) /\ db.shifts[obj[i].id].is_closed) =>
            /\ last'.status = "ShiftAlreadyClosed"
            /\ db' = db
    ]_vars

\* C17: a successful close_shift sets is_closed and closed_at, sets
\* total_sales to the sum of the amounts of the shift's SALE transactions and
\* total_cash, total_card, total_transfer to the sums per method of the
\* payments of those SALE transactions; refunds and adjustments do not
\* contribute, and nothing else is written.
C17_CloseTotals ==
    [][\A i \in Procs :
        (CloseShift(i) /\ ~obj[i].is_closed) =>
            LET sid == obj[i].id
                n == Len(db.payments)
                row == db'.shifts[sid]
            IN /\ last'.op = "close_shift"
               /\ last'.status = "ok"
               /\ row.is_closed
               /\ row.closed_at = now
               /\ row.total_sales = SumOfType(db.transactions, sid, "SALE")
               /\ row.total_cash = SumPaid(db, n, sid, "SALE", "CASH")
               /\ row.total_card = SumPaid(db, n, sid, "SALE", "CARD")
               /\ row.total_transfer = SumPaid(db, n, sid, "SALE", "TRANSFER")
               /\ row.location = db.shifts[sid].location
               /\ row.staff = db.shifts[sid].staff
               /\ db' = [db EXCEPT !.shifts[sid] = row]
    ]_vars

\* a shift with a card sale and a cash refund was closed: the refund is in
\* none of the totals
C17_Witness ==
    /\ last.op = "close_shift"
    /\ last.status = "ok"
    /\ \E s \in 1..Len(db.shifts) :
          /\ last.ret = s
          /\ db.shifts[s].is_closed
          /\ db.shifts[s].total_sales = 10
          /\ db.shifts[s].total_card = 10
          /\ db.shifts[s].total_cash = 0
          /\ SumOfType(db.transactions, s, "REFUND") = 5

ShiftTotals(row) == <<row.total_sales, row.total_cash, row.total_card, row.total_transfer>>

\* C18: while a shift is open its four stored totals are 0; once it is closed
\* they never change again, whatever is attempted later, and in every later
\* state they equal the sums over the shift's SALE transactions and their
\* payments.
C18_TotalsZeroThenFrozen ==
    /\ [](\A s \in 1..Len(db.shifts) :
            IF db.shifts[s].is_closed
            THEN ShiftTotals(db.shifts[s]) =
                    <<SumOfType(db.transactions, s, "SALE"),
                      SumPaid(db, Len(db.payments), s, "SALE", "CASH"),
                      SumPaid(db, Len(db.payments), s, "SALE", "CARD"),
                      SumPaid(db, Len(db.payments), s, "SALE", "TRANSFER")>>
            ELSE ShiftTotals(db.shifts[s]) = <<0, 0, 0, 0>>)
    /\ [][\A s \in 1..Len(db.shifts) :
            db.shifts[s].is_closed =>
                ShiftTotals(db'.shifts[s]) = ShiftTotals(db.shifts[s])]_vars

\* a closed shift keeps its totals while the other shift, still open, has
\* recorded sales and totals of 0, and a report was made
C18_Witness ==
    /\ last.op = "get_shift_summary"
    /\ \E s \in 1..Len(db.shifts), o \in 1..Len(db.shifts) :
          /\ db.shifts[s].is_closed
          /\ db.shifts[s].total_sales > 0
          /\ ~db.shifts[o].is_closed
          /\ SumOfType(db.transactions, o, "SALE") > 0

\* C19: CLOSED is terminal: a shift with is_closed = TRUE has closed_at set,
\* and no step of start_shift, close_shift, create_sale, create_refund,
\* create_adjustment or a report sets is_closed back to FALSE or clears
\* closed_at.
C19_ClosedIsTerminal ==
    /\ [](\A s \in 1..Len(db.shifts) : db.shifts[s].is_closed => db.shifts[s].closed_at # 0)
    /\ [][\A s \in 1..Len(db.shifts) :
            db.shifts[s].is_closed =>
                /\ s <= Len(db'.shifts)
                /\ db'.shifts[s].is_closed
                /\ db'.shifts[s].closed_at # 0]_vars

\* a shift was closed and a new shift was then started at its location: the
\* closed one is still closed
C19_Witness ==
    /\ last.op = "start_shift"
    /\ last.status = "ok"
    /\ \E s \in 1..Len(db.shifts), t \in 1..Len(db.shifts) :
          /\ db.shifts[s].is_closed
          /\ ~db.shifts[t].is_closed
          /\ db.shifts[t].location = db.shifts[s].location

\* C20: a successful purchase increases the product's StorageStock by
\* exactly quantity (a missing row being created with quantity 0 first), sets
\* last_purchase_price to price, leaves DisplayStock unchanged and appends
\* exactly one PurchaseTransaction with total_cost = quantity x price; nothing
\* else is written.
C20_PurchaseEffects ==
    [][(last'.op = "purchase" /\ last'.status = "ok") =>
       \A i \in Procs, p \in Products, q \in QtyInputs, pr \in PriceInputs :
        Purchase(i, p, q, pr) =>
            LET n == Len(db.purchases) + 1
            IN /\ last'.ret = n
               /\ db'.storage[p] = InStorage(db, p) + q
               /\ db'.last_purchase_price[p] = pr
               /\ \A x \in Products \ {p} :
                     /\ db'.storage[x] = db.storage[x]
                     /\ db'.last_purchase_price[x] = db.last_purchase_price[x]
               /\ db'.display = db.display
               /\ Len(db'.purchases) = n
               /\ SubSeq(db'.purchases, 1, n - 1) = db.purchases
               /\ db'.purchases[n].product = p
               /\ db'.purchases[n].quantity = q
               /\ db'.purchases[n].purchase_price = pr
               /\ db'.purchases[n].total_cost = q * pr
               /\ db'.transfers = db.transfers
               /\ db'.transactions = db.transactions
               /\ db'.payments = db.payments
               /\ db'.shifts = db.shifts
    ]_vars

\* the legacy product, which had no StorageStock row, was purchased: 2 units
\* at price 4, total cost 8
C20_Witness ==
    /\ last.op = "purchase"
    /\ last.status = "ok"
    /\ db.storage[2] = 2
    /\ db.last_purchase_price[2] = 4
    /\ db.display[2] = NoRow
    /\ db.purchases[last.ret].product = 2
    /\ db.purchases[last.ret].total_cost = 8

\* C21: purchase fails with InvalidQuantity when quantity <= 0 and with
\* InvalidPrice when price < 0, and in both cases writes nothing (no
\* PurchaseTransaction, StorageStock and last_purchase_price unchanged); a
\* price of exactly 0 is accepted.
C21_PurchaseGuards ==
    [][(last'.op = "purchase") =>
       \A i \in Procs, p \in Products, q \in QtyInputs, pr \in PriceInputs :
        Purchase(i, p, q, pr) =>
            /\ (q <= 0 \/ pr < 0) =>
                  /\ last'.status \in {"InvalidQuantity", "InvalidPrice"}
                  /\ db' = db
            /\ q <= 0 => last'.status = "InvalidQuantity"
            /\ (q > 0 /\ pr < 0) => last'.status = "InvalidPrice"
            /\ (q > 0 /\ pr = 0) =>
                  /\ last'.status = "ok"
                  /\ db'.purchases[Len(db'.purchases)].purchase_price = 0
    ]_vars

\* a purchase at price 0 was recorded and a later purchase at a negative
\* price was refused
C21_Witness ==
    /\ last.op = "purchase"
    /\ last.status = "InvalidPrice"
    /\ \E n \in 1..Len(db.purchases) : db.purchases[n].purchase_price = 0

\* C22: transfer fails with InsufficientStock, reporting the available
\* storage quantity, whenever StorageStock.quantity < quantity, and with a
\* validation error when quantity <= 0; in both cases StorageStock,
\* DisplayStock and the TransferTransaction log (and everything else) are
\* unchanged.
C22_TransferGuards ==
    [][(last'.op = "transfer") =>
       /\ \A i \in Procs, p \in Products, q \in QtyInputs :
             (TransferLock(i, p, q) /\ q <= 0) =>
                /\ last'.status = "InvalidQuantity"
                /\ db' = db
       /\ \A i \in Procs :
             (TransferCheck(i) /\ InStorage(db, call[i].product) < call[i].qty) =>
                /\ last'.status = "InsufficientStock"
                /\ last'.info = InStorage(db, call[i].product)
                /\ db' = db
    ]_vars

\* a transfer of 2 units was refused with 1 unit in storage
C22_Witness ==
    /\ last.op = "transfer"
    /\ last.status = "InsufficientStock"
    /\ last.info = 1
    /\ \E p \in Products : db.storage[p] = 1

\* C23: a successful transfer decreases StorageStock by exactly quantity,
\* increases DisplayStock by exactly quantity (a missing row being created
\* with 0 first), appends exactly one TransferTransaction, and leaves
\* StorageStock + DisplayStock, the Transaction and Payment logs and every
\* other row unchanged.
C23_TransferEffects ==
    [][(last'.op = "transfer" /\ last'.status = "ok") =>
       \A i \in Procs :
        TransferFinish(i) =>
            LET p == call[i].product
                q == call[i].qty
                n == Len(db.transfers) + 1
            IN /\ last'.ret = n
               /\ db'.storage[p] = InStorage(db, p) - q
               /\ db'.display[p] = OnDisplay(db, p) + q
               /\ InStorage(db', p) + OnDisplay(db', p) = InStorage(db, p) + OnDisplay(db, p)
               /\ \A x \in Products \ {p} :
                     /\ db'.storage[x] = db.storage[x]
                     /\ db'.display[x] = db.display[x]
               /\ Len(db'.transfers) = n
               /\ SubSeq(db'.transfers, 1, n - 1) = db.transfers
               /\ db'.transfers[n].product = p
               /\ db'.transfers[n].quantity = q
               /\ db'.transactions = db.transactions
               /\ db'.payments = db.payments
               /\ db'.purchases = db.purchases
               /\ db'.last_purchase_price = db.last_purchase_price
               /\ db'.shifts = db.shifts
    ]_vars

\* two transfers of one unit each: the first created the DisplayStock row, the
\* second added to it, and storage is empty
C23_Witness ==
    /\ last.op = "transfer"
    /\ last.status = "ok"
    /\ Len(db.transfers) = 2
    /\ \E p \in Products :
          /\ db.display[p] = 2
          /\ db.storage[p] = 0
          /\ db.transfers[1].product = p /\ db.transfers[1].quantity = 1
          /\ db.transfers[2].product = p /\ db.transfers[2].quantity = 1

\* ---------------------------------------------------------------- C24

\* the process whose row lock process i needs for its next step, 0 when i
\* waits for nobody: a transfer past its first lock needs its second one; the
\* calls on the Product row take one lock and need no further one
WaitsFor(i) ==
    IF pc[i] = "transfer_locked"
       /\ TransferAllowed(StorageQty(db, call[i].product), call[i].qty)
    THEN locks[TransferLockOrder[2]][call[i].product]
    ELSE 0

Deadlocked == \E S \in (SUBSET Procs) \ {{}} : \A i \in S : WaitsFor(i) \in S \ {i}

\* C24: a process takes the lock on a product's DisplayStock row only while
\* it already holds the lock on that product's StorageStock row, and no set of
\* concurrent purchase, transfer, create_sale, create_refund and
\* create_adjustment calls ever waits for each other's row locks in a cycle
C24_LockOrder ==
    /\ []~Deadlocked
    /\ [][\A i \in Procs, p \in Products :
            (locks'["display"][p] = i /\ locks["display"][p] # i) => locks["storage"][p] = i
         ]_vars

C24_Witness ==
    \E i, j \in Procs, p \in Products :
        /\ i # j
        /\ pc[i] = "transfer_checked"
        /\ locks["storage"][p] = i
        /\ locks["display"][p] = i
        /\ pc[j] = "sale_locked"
        /\ locks["product"][p] = j

\* ---------------------------------------------------------------- C25

\* C25: every stock check is made on a counter row the caller holds locked:
\* a transfer past its check holds the StorageStock row, and a create_sale
\* passes its check only against the quantities the two rows hold at that
\* moment, so a concurrent transfer cannot have its units counted twice
C25_ChecksUnderRowLock ==
    /\ [](\A i \in Procs : pc[i] = "transfer_checked" =>
              locks["storage"][call[i].product] = i)
    /\ [][(last'.op = "create_sale" /\ last'.status # "InsufficientStock") =>
            \A i \in Procs, m \in Methods :
                SaleFinish(i, m) =>
                    call[i].qty <= InStorage(db, call[i].product) + OnDisplay(db, call[i].product)
         ]_vars

\* ---------------------------------------------------------------- C26

\* C26: create_adjustment on a closed shift fails with ShiftClosed and with
\* qty = 0 fails with ZeroQuantity, writing nothing; a call on an open shift
\* with a qty that keeps DisplayStock non-negative succeeds, appends exactly
\* one ADJUSTMENT Transaction with amount 0 and quantity abs(qty), appends no
\* Payment, changes DisplayStock by the signed qty and leaves StorageStock
\* unchanged
C26_AdjustmentEffects ==
    [][(last'.op = "create_adjustment") =>
       \A i \in Procs, p \in Products, q \in QtyInputs :
        CreateAdjustment(i, p, q) =>
            /\ obj[i].is_closed => (last'.status = "ShiftClosed" /\ db' = db)
            /\ (~obj[i].is_closed /\ q = 0) => (last'.status = "ZeroQuantity" /\ db' = db)
            /\ (~obj[i].is_closed /\ q # 0 /\ OnDisplay(db, p) + q >= 0) =>
                 /\ last'.status = "ok"
                 /\ Len(db'.transactions) = Len(db.transactions) + 1
                 /\ db'.transactions[Len(db'.transactions)].type = "ADJUSTMENT"
                 /\ db'.transactions[Len(db'.transactions)].amount = 0
                 /\ db'.transactions[Len(db'.transactions)].qty = Magnitude(q)
                 /\ db'.payments = db.payments
                 /\ OnDisplay(db', p) = OnDisplay(db, p) + q
                 /\ db'.storage = db.storage
    ]_vars

\* ---------------------------------------------------------------- C27

\* C27: a create_adjustment on an open shift with a negative qty whose
\* magnitude exceeds the DisplayStock quantity fails, appends no Transaction
\* and leaves the stock counters unchanged
C27_OversizedNegativeAdjustmentFails ==
    [][(last'.op = "create_adjustment") =>
       \A i \in Procs, p \in Products, q \in QtyInputs :
        (CreateAdjustment(i, p, q) /\ ~obj[i].is_closed /\ q < 0 /\ Magnitude(q) > OnDisplay(db, p)) =>
            /\ last'.status # "ok"
            /\ db'.transactions = db.transactions
            /\ db'.display = db.display
            /\ db'.storage = db.storage
    ]_vars

C27_Witness ==
    /\ last.op = "create_adjustment"
    /\ last.status \notin {"ok", "ShiftClosed", "ZeroQuantity"}
    /\ last.info < 0
    /\ \A p \in Products : OnDisplay(db, p) < Magnitude(last.info)
    /\ \E p \in Products : InStorage(db, p) > 0

\* ---------------------------------------------------------------- C28

C29_SaleShowsInSummary ==
    [][(last'.op = "create_sale") =>
       \A i \in Procs, m \in Methods :
        (SaleFinish(i, m) /\ call[i].qty <= OnDisplay(db, call[i].product)) =>
            LET a == ProductPrice[call[i].product] * call[i].qty
                before == ShiftSummary(db, obj[i].id)
                after == ShiftSummary(db', obj[i].id)
            IN /\ last'.status = "ok"
               /\ after.sales_count = before.sales_count + 1
               /\ after.sales_total = before.sales_total + a
               /\ after.net_total = before.net_total + a
               /\ after.total_cash = before.total_cash + (IF m = "CASH" THEN a ELSE 0)
               /\ after.total_card = before.total_card + (IF m = "CARD" THEN a ELSE 0)
               /\ after.total_transfer = before.total_transfer + (IF m = "TRANSFER" THEN a ELSE 0)
               /\ after.refunds_count = before.refunds_count
               /\ after.refunds_total = before.refunds_total
    ]_vars

\* ---------------------------------------------------------------- C30

\* C30: get_financial_report returns total_in_register = net_cash + net_card
\* + net_transfer and net_total = sales_total - refunds_total, both totals
\* being those of the shift's SALE and REFUND Transactions, and over a ledger
\* whose rows were written by create_sale and create_refund (one Payment of
\* the Transaction's amount each) total_in_register equals net_total
C30_FinancialReport ==
    [][(last'.op = "get_financial_report") =>
       \A i \in Procs :
        GetFinancialReport(i) =>
            LET r == last'.summary
                sid == obj[i].id
            IN /\ r.total_in_register = r.net_cash + r.net_card + r.net_transfer
               /\ r.net_total = r.sales_total - r.refunds_total
               /\ r.sales_total = SumOfType(db.transactions, sid, "SALE")
               /\ r.refunds_total = SumOfType(db.transactions, sid, "REFUND")
               /\ r.total_in_register = r.net_total
    ]_vars

C30_Witness ==
    /\ last.op = "get_financial_report"
    /\ last.summary.net_transfer > 0
    /\ last.summary.net_cash < 0
    /\ last.summary.refunds_total > 0
    /\ last.summary.total_in_register = last.summary.net_total

\* ---------------------------------------------------------------- C31

\* the lines of a report about product p
LinesOf(lines, p) == {n \in 1..Len(lines) : lines[n].product = p}

\* C31: get_inventory_report(location) returns exactly one line for every
\* active product of the location and none for any other product, and each
\* line carries the product's storage quantity, its display quantity and
\* their sum, a missing stock row counting as 0
C31_InventoryLines ==
    [][(last'.op = "get_inventory_report") =>
       \A i \in Procs, loc \in Locations :
        GetInventoryReport(i, loc) =>
            LET lines == last'.summary.lines
            IN /\ \A p \in Products :
                    Cardinality(LinesOf(lines, p)) =
                        (IF ProductLocation[p] = loc /\ ProductActive[p] THEN 1 ELSE 0)
               /\ \A n \in 1..Len(lines) :
                    /\ lines[n].stock = InStorage(db, lines[n].product) + OnDisplay(db, lines[n].product)
                    /\ {"storage", "display"} \subseteq DOMAIN lines[n]
                    /\ lines[n].storage = InStorage(db, lines[n].product)
                    /\ lines[n].display = OnDisplay(db, lines[n].product)
    ]_vars

\* ---------------------------------------------------------------- C32

C33_AppendOnly ==
    [][/\ Len(db'.transactions) >= Len(db.transactions)
       /\ \A t \in 1..Len(db.transactions) :
             /\ [db'.transactions[t] EXCEPT !.exported_at = NotExported]
                    = [db.transactions[t] EXCEPT !.exported_at = NotExported]
             /\ db'.transactions[t].exported_at # db.transactions[t].exported_at
                    => (/\ db.transactions[t].exported_at = NotExported
                        /\ db'.transactions[t].exported_at # NotExported)
       /\ Len(db'.payments) >= Len(db.payments)
       /\ \A k \in 1..Len(db.payments) : db'.payments[k] = db.payments[k]
       /\ Len(db'.purchases) >= Len(db.purchases)
       /\ \A k \in 1..Len(db.purchases) : db'.purchases[k] = db.purchases[k]
       /\ Len(db'.transfers) >= Len(db.transfers)
       /\ \A k \in 1..Len(db.transfers) : db'.transfers[k] = db.transfers[k]
    ]_vars

\* ---------------------------------------------------------------- C34

SheetRowsOf(d, t) == {n \in 1..Len(d.sheet) : d.sheet[n].id = t}

\* C35: a run of export_transactions sets exported_at on exactly the
\* Transactions whose rows it appended; a run whose append fails, or a
\* disabled one, marks none; and over repeated and concurrent runs every
\* Transaction is appended to the sheet at most once
C35_ExportedOnce ==
    /\ [](\A t \in 1..Len(db.transactions) : Cardinality(SheetRowsOf(db, t)) <= 1)
    /\ [][\A i \in Procs :
            /\ ExportMark(i) =>
                 \A t \in 1..Len(db.transactions) :
                    (db'.transactions[t].exported_at # db.transactions[t].exported_at)
                        <=> (\E n \in 1..Len(call[i].rows) :
                                call[i].rows[n].id = t /\ call[i].rows[n] \in {db.sheet[k] : k \in 1..Len(db.sheet)})
            /\ ((\E enabled \in BOOLEAN, size \in 1..MaxRows : ExportRead(i, enabled, size))
                    \/ (\E appended \in BOOLEAN : ExportAppend(i, appended)))
                 => db'.transactions = db.transactions
         ]_vars

\* ---------------------------------------------------------------- C38

\* the closed shifts of a location
ClosedAt(d, loc) ==
    {s \in 1..Len(d.shifts) : d.shifts[s].location = loc /\ d.shifts[s].is_closed}

\* C38: a start_shift at a location whose shifts are all closed (and that has
\* at least one) is not refused: it passes the existence check, and its insert
\* succeeds and adds an open shift at the location, leaving the closed ones
\* closed, however many shifts the location has had
C38_ClosedShiftDoesNotBlock ==
    [][\A i \in Procs :
        /\ \A st \in Staff, loc \in Locations :
              (StartShiftCheck(i, st, loc) /\ OpenAt(db, loc) = {} /\ ClosedAt(db, loc) # {})
                  => pc'[i] = "start_insert"
        /\ (StartShiftInsert(i) /\ OpenAt(db, call[i].location) = {}
                /\ ClosedAt(db, call[i].location) # {})
              => /\ last'.status = "ok"
                 /\ Len(db'.shifts) = Len(db.shifts) + 1
                 /\ OpenAt(db', call[i].location) = {Len(db'.shifts)}
                 /\ ClosedAt(db', call[i].location) = ClosedAt(db, call[i].location)
    ]_vars

C38_Witness ==
    /\ last.op = "start_shift"
    /\ last.status = "ok"
    /\ \E loc \in Locations :
          /\ OpenAt(db, loc) = {last.ret}
          /\ \E s \in ClosedAt(db, loc) : s < last.ret /\ db.shifts[s].closed_at > 0

\* ---------------------------------------------------------------- C39

\* C39: a create_refund on an open shift with qty > 0 succeeds whatever the
\* product (active or not, of the shift's location or not) and whatever the
\* stock and the sales of the shift: it returns a new REFUND Transaction
C39_RefundAlwaysSucceeds ==
    [][(last'.op = "create_refund") =>
       \A i \in Procs, p \in Products, q \in QtyInputs, m \in Methods :
        (CreateRefund(i, p, q, m) /\ ~obj[i].is_closed /\ q > 0) =>
            /\ last'.status = "ok"
            /\ Len(db'.transactions) = Len(db.transactions) + 1
            /\ db'.transactions[Len(db'.transactions)].type = "REFUND"
            /\ db'.transactions[Len(db'.transactions)].product = p
    ]_vars

\* the shift a conversation remembers is closed in the database
RememberedShiftClosed(u) ==
    /\ fsm[u].shift_id \in 1..Len(db.shifts)
    /\ db.shifts[fsm[u].shift_id].is_closed

\* C36: in the sale and the refund conversation, when the shift remembered at
\* the start of the conversation is closed by the time the payment step gets
\* its message, the handler ends the conversation there: the conversation
\* state is cleared, no service call is begun, and no row of the database
\* (Transaction, Payment, stock) changes.
C36_ClosedShiftCancelsPayment ==
    [][\A u \in Staff, i \in Procs, text \in TextInputs :
          (/\ RememberedShiftClosed(u)
           /\ \/ SelectPaymentMethod(u, i, text)
              \/ SelectRefundPaymentMethod(u, i, text))
          => /\ fsm'[u] = NoFsm
             /\ db' = db
             /\ pc' = pc
             /\ call' = call
             /\ obj' = obj
             /\ text # CancelButton
                => last'.status = "ShiftWasClosed" /\ last'.info = fsm[u].shift_id]_vars

\* a sale conversation was cancelled at the payment step because its shift
\* had been closed: no conversation is left and nothing was recorded
C36_Witness ==
    /\ last.op = "create_sale"
    /\ last.status = "ShiftWasClosed"
    /\ db.shifts[last.info].is_closed
    /\ db.transactions = <<>>
    /\ db.payments = <<>>
    /\ \A u \in Staff : fsm[u] = NoFsm

\* the services only staff who manage the location are meant to reach
ManagementServices == {"start_shift", "close_shift", "purchase", "transfer"}

\* the conversation states that lead to them
ManagementStates ==
    {"ShiftStates:waiting_for_close_confirmation",
     "PurchaseStates:waiting_for_product", "PurchaseStates:waiting_for_quantity",
     "PurchaseStates:waiting_for_price", "PurchaseStates:waiting_for_supplier",
     "TransferStates:waiting_for_product", "TransferStates:waiting_for_quantity"}

\* what the services read and write
servicevars == <<db, now, pc, call, obj, locks, last>>

\* the step is made by the service on request handler i (a step of a service
\* either returns, which sets last.op, or moves the handler on inside it)
ServiceStep(i, service) ==
    /\ servicevars' # servicevars
    /\ last'.op = service \/ pc'[i] \in {"start_insert", "transfer_locked", "transfer_checked"}
    /\ CASE service = "start_shift" ->
              \/ \E st \in Staff, loc \in Locations : StartShiftCheck(i, st, loc)
              \/ StartShiftInsert(i)
         [] service = "close_shift" -> CloseShift(i)
         [] service = "purchase" ->
              \E p \in Products, loc \in Locations, q \in QtyInputs, pr \in PriceInputs :
                  PurchaseAt(i, p, loc, q, pr)
         [] service = "transfer" ->
              \/ \E p \in Products, loc \in Locations, q \in QtyInputs :
                    TransferLockAt(i, p, loc, q)
              \/ TransferCheck(i)
              \/ TransferFinish(i)

\* C37: through the bot, a CASHIER is never in a conversation that leads to
\* start_shift, close_shift, purchase or transfer and never has a handler
\* calling one of them; every step such a service makes is made for a handler
\* that runs for a staff member whose role is ADMIN or MANAGER.
C37_CashierNeverManages ==
    /\ [](\A u \in Staff :
            profiles[u].role = "CASHIER"
            => /\ fsm[u].state \notin ManagementStates
               /\ fsm[u].calls \notin ManagementServices)
    /\ [][\A service \in ManagementServices :
            (\E i \in Procs : ServiceStep(i, service))
            => \E u \in Staff :
                  /\ profiles[u].role \in {"ADMIN", "MANAGER"}
                  /\ fsm[u].calls = service
                  /\ fsm[u].handler \in Procs
                  /\ ServiceStep(fsm[u].handler, service)]_vars

\* the cashier was refused a purchase (the last answer) after the manager had
\* opened a shift, bought stock, moved it to the display and closed the shift
C37_Witness ==
    /\ last.op = "start_purchase"
    /\ last.status = "NoPermission"
    /\ profiles[last.info].role = "CASHIER"
    /\ \E s \in 1..Len(db.shifts) :
          db.shifts[s].is_closed /\ profiles[db.shifts[s].staff].role \in {"ADMIN", "MANAGER"}
    /\ db.purchases # <<>>
    /\ db.transfers # <<>>

\* the texts parse_payment_method gets that are none of its three keys
UnknownTexts == TextInputs \ {CashButton, CardButton, TransferButton, CancelButton}

\* the call has inserted one Transaction of the type for the product and the
\* quantity of the conversation of user u, and its one Payment in cash
RecordedAsCash(u, type) ==
    /\ Len(db'.transactions) = Len(db.transactions) + 1
    /\ Len(db'.payments) = Len(db.payments) + 1
    /\ LET t == db'.transactions[Len(db'.transactions)]
           pay == db'.payments[Len(db'.payments)]
       IN /\ t.type = type
          /\ t.product = fsm[u].product_id
          /\ t.qty = fsm[u].quantity
          /\ pay.transaction = Len(db'.transactions)
          /\ pay.method = "CASH"

\* C40: at the payment step of a sale or refund conversation whose shift is
\* open, a text that is none of the three payment buttons (and not the cancel
\* text) is not rejected: it is parsed as CASH, create_sale / create_refund is
\* called with it, and the sale (when the stock suffices) or the refund is
\* recorded with a cash Payment.
C40_UnknownTextRecordedAsCash ==
    [][\A u \in Staff, i \in Procs :
          /\ \A text \in UnknownTexts :
                (/\ ~RememberedShiftClosed(u)
                 /\ \/ SelectPaymentMethod(u, i, text)
                    \/ SelectRefundPaymentMethod(u, i, text))
                => /\ fsm'[u].handler = i
                   /\ fsm'[u].payment_method = "CASH"
          /\ (/\ fsm[u].text \in UnknownTexts
              /\ SaleReturn(u, i)
              /\ StockQuantity(call[i].seen, DisplayQty(db, call[i].product)) >= call[i].qty)
             => RecordedAsCash(u, "SALE")
          /\ (/\ fsm[u].text \in UnknownTexts
              /\ RefundCall(u, i)
              /\ ~obj[i].is_closed)
             => RecordedAsCash(u, "REFUND")]_vars

====
